---- MODULE Spec2Model ----
(***************************************************************************)
(* A model of the wexing async runtime: the task executor and its ready    *)
(* queue (src/src/executor/mod.rs, src/src/threadpool/mod.rs), the async   *)
(* mutex (src/src/sync/mutex.rs), the bounded channel                      *)
(* (src/src/sync/channel.rs) and the timer thread (src/src/timer/mod.rs,   *)
(* src/src/timer/sleep.rs).                                                *)
(*                                                                         *)
(* Each subsystem has its own variables, initial predicate and actions;    *)
(* a specification runs one subsystem and leaves the others in their       *)
(* initial state.                                                          *)
(***************************************************************************)
EXTENDS Integers, Sequences, FiniteSets, TLC

(***************************************************************************)
(* Bounds of the model.                                                    *)
(***************************************************************************)
\* Number of futures handed to Executor::spawn.
NumTasks == 2
\* num_async_threads given to Executor::new: the `size` of the async pool.
NumWorkers == 2
\* Ready-queue slots per worker; the source allocates size * 200
\* (threadpool/mod.rs line 184), scaled down here.
QueueFactor == 1
\* Wakes that may be invoked in one run, over all tasks.
MaxWakes == 4

\* Number of tasks that lock the one sync::Mutex.
NumLockers == 2
\* Wakes of a task suspended in lock().await that come from elsewhere (a
\* timer or channel the same task also waits on).
MaxSpurious == 1
\* lock().await / drop(guard) rounds one task may go through.
MaxRounds == 1

\* Number of SyncSender clones of the one sync_channel.
NumSenders == 2
\* `bound` given to sync_channel.
ChanBound == 1
\* Values sent over the channel, all senders together.
MaxSends == 4

\* Number of SleepFutures.
NumSleepers == 2
\* The clock runs from 0 to MaxTime; deadlines are drawn from 0 .. MaxTime - 1.
MaxTime == 2
\* Polls of SleepFutures, all sleepers together.
MaxPolls == 3
\* Number of tasks that await with_deadline or with_timeout.
NumDeadliners == 1

\* Polls of one select future.
MaxSelPolls == 2
\* Values the inputs of a select may yield: 1 .. NumSelValues.
NumSelValues == 2

\* Executions nested on one thread.
MaxNest == 3
\* Executors whose executions a thread may run.
NumExecutors == 2

\* Threads of the async pool that poll the sleeping tasks.
NumJamWorkers == 1
\* Tasks other than the sleeping ones that are spawned.
MaxFill == 1

\* Threads that share one AtomicCounter.
NumCounterThreads == 3
\* Calls of AtomicCounter::next begun, over all threads.
MaxCalls == 4
\* Bits of the usize in the model; 64 or 32 in the program.
CounterBits == 8

\* Polls block_on makes of its future.
MaxBlockPolls == 3
\* Wakes invoked on block_on's wakers, all together.
MaxBlockWakes == 4
\* Outputs the future given to block_on may have: 1 .. NumOutputs.
NumOutputs == 2

\* Largest `size` given to ThreadPool::new; sizes are drawn from 0 .. MaxSize.
MaxSize == 2
\* Threads that call schedule and try_schedule on the pool.
NumCallers == 2
\* Jobs handed to schedule and try_schedule, all callers together.
MaxJobs == 2

Tasks == 1 .. NumTasks
Workers == 1 .. NumWorkers
\* A thread outside the pool that holds wakers (the timer thread, a thread
\* inside block_on, a sender on another thread).
ExtThreads == {0}
Threads == Workers \cup ExtThreads
NoTask == 0

VARIABLES
    \* ---- executor ----
    userRef,    \* the user still owns its Arc<Executor>
    queue,      \* the async pool's bounded job channel: poll_task closures, by task
    tpc,        \* per thread: where it is in Inner::work / poll_task / wake
    job,        \* per worker: the task of the poll_task closure it is running
    target,     \* per thread: the task of the TaskWaker it is invoking
    cell,       \* per task: the SpawnedTask cell, Some(future) or None
    polls,      \* per task: Future::poll calls begun on its future
    wakes,      \* per task: TaskWaker::wake calls invoked on its wakers
    ready,      \* per task: its future has returned Poll::Ready
    skipped,    \* per task: a poll job locked the cell and found it empty
    wokeDead,   \* a wake was invoked after the executor had been dropped
    \* ---- sync::Mutex ----
    mLocked,    \* Inner.locked
    mWakers,    \* Inner.wakers, a FIFO of wakers [task, id]
    holdsValue, \* per task: it owns the std MutexGuard of Mutex.value
    mpc,        \* per task: where it is in LockFuture::poll / MutexGuard::drop
    dstep,      \* per task: the step of MutexGuard::drop it performs next
    taken,      \* per task: the local `wakers` of its running drop, not yet woken
    swapped,    \* per task: the wakers its running drop swapped out of the FIFO
    delivered,  \* per task: the wakers its running drop has invoked, in order
    mJobs,      \* per task: poll jobs enqueued for it and not yet run
    rounds,     \* per task: guards it has acquired and dropped
    spurious,   \* wakes of lockers invoked by other resources so far
    assertFailed, \* an assert! of MutexGuard::new or MutexGuard::drop has failed
    \* ---- sync_channel / oneshot ----
    oneshot,      \* the channel was made by oneshot(), sender 1 is a OneSender
    fifo,         \* the values buffered in the std sync_channel
    stdSenders,   \* live std SyncSender handles (clones and SendFutures)
    innerCount,   \* Arc::strong_count of the shared Inner
    senderWakers, \* Inner.sender_wakers, by sender task
    receiverWaker,\* Inner.receiver_waker is Some
    spc,          \* per sender: where its task is
    sfValue,      \* per sender: SendFuture.value (or the value of a sync send)
    sent,         \* per sender: values it has begun to send
    rpc,          \* where the receiver task is
    sJobs,        \* per sender: poll jobs enqueued by wakes, not yet run
    rJobs,        \* poll jobs enqueued for the receiver task, not yet run
    status,       \* per value: what its send has returned so far
    sentOk,       \* the values whose push succeeded, in push order
    received,     \* the values the receiver has returned, in order
    \* ---- thread pool ----
    pool,         \* the ThreadPool value: not made, in new, alive, dropped...
    psize,        \* Inner.size
    pqueue,       \* the jobs in the pool's sync_channel
    ppc,          \* per thread (owner, callers, workers): where it is
    hold,         \* per thread: the job it has in hand, or NoJob
    jkind,        \* per job, in order of creation: "ok" or "panic"
    pushed,       \* the jobs whose push succeeded, in push order
    dequeued,     \* the jobs received by workers, in order
    ran,          \* the jobs that were called
    tryRes,       \* per thread: what its last try_schedule returned
    tryJob,       \* per thread: the job of its try_schedule that is in
                  \* start_threads or has returned a spawn error
    \* ---- timer ----
    clock,        \* Instant::now()
    heap,         \* timer_thread's BinaryHeap: the registrations held
    tmpc,         \* where the timer thread is
    slotW,        \* per sleeper: the shared slot holds Some(waker)
    deadline,     \* per sleeper: SleepFuture.deadline
    zpc,          \* per sleeper: where its task is
    zJobs,        \* per sleeper: poll jobs enqueued by the timer's wakes
    zpolls,       \* polls of SleepFutures begun so far
    regs,         \* every ScheduledWake built, in order: instant and slot
    arrived,      \* registrations in the order the timer received them
    lastFired,    \* the registration fired last and the clock then, or NoFire
    invoked,      \* per registration: wakers its firing has invoked
    \* ---- with_deadline / with_timeout ----
    dctor,        \* per slot: "deadline" or "timeout" once a task awaits one
    innerReady,   \* per slot: the inner future would return Ready
    innerPolls,   \* per slot: polls of the inner future so far
    dres,         \* per slot: what with_deadline returned, or "none"
    dropAt,       \* per slot: the clock when the DeadlineFuture was dropped
    \* ---- select ----
    sarity,       \* futures given to select_ab .. select_abcde, 0 before
    sready,       \* per position: the input future would return Ready
    sval,         \* per position: the value the input future yields
    spos,         \* the input SelectFuture::poll is at, 0 outside a poll
    slog,         \* the inputs polled in the current poll, with results
    sout,         \* what the last poll of the select returned
    spolls,       \* polls of the SelectFuture begun so far
    \* ---- block_on ----
    bpc,          \* where the thread inside block_on_unpin is
    biter,        \* the loop iteration: its channel and waker
    bmsg,         \* messages in the current iteration's sync_channel(1)
    bwoken,       \* per waker: how often wake was invoked on it
    bearly,       \* the wakers first invoked during their own poll
    bout,         \* what block_on returned, or NoOutput
    bwakes,       \* wakes invoked so far, on all wakers
    \* ---- the counter in the Mutex ----
    counter,      \* the u32 the Mutex holds
    cread,        \* per task: the value read for += 1, or NoRead
    cadded,       \* per task: how often it has added 1
    cworkers,     \* threads of the async pool, 0 before Executor::new
    \* ---- the thread-local EXECUTOR of one thread ----
    tls,          \* the executor the cell refers to, or NoExec
    tstack,       \* the executions in progress on the thread, outermost first
    tgot,         \* what the last get_thread_executor() returned
    \* ---- AtomicCounter ----
    nextValue,    \* the AtomicUsize next_value
    agot,         \* per thread: the value its call of next holds, or NoCount
    areturned,    \* the calls that have returned: <<thread, value>>
    \* ---- timer thread and async workers ----
    jspawn,       \* per sleeping task: "no", its spawn job "queued" or "taken"
    jfill,        \* poll jobs of other tasks in the ready queue
    jfilled,      \* other tasks spawned so far
    jwaking       \* the task whose waker the timer thread is invoking, or 0

execVars == <<userRef, queue, tpc, job, target, cell, polls, wakes, ready,
              skipped, wokeDead>>

mutexVars == <<mLocked, mWakers, holdsValue, mpc, dstep, taken, swapped,
               delivered, mJobs, rounds, spurious, assertFailed>>

chanVars == <<oneshot, fifo, stdSenders, innerCount, senderWakers, receiverWaker, spc,
              sfValue, sent, rpc, sJobs, rJobs, status, sentOk, received>>

timerVars == <<clock, heap, tmpc, slotW, deadline, zpc, zJobs, zpolls,
               regs, arrived, lastFired, invoked>>

poolVars == <<pool, psize, pqueue, ppc, hold, jkind, pushed, dequeued, ran,
              tryRes, tryJob>>

dlVars == <<dctor, innerReady, innerPolls, dres, dropAt>>

selVars == <<sarity, sready, sval, spos, slog, sout, spolls>>

blockVars == <<bpc, biter, bmsg, bwoken, bearly, bout, bwakes>>

ctrVars == <<counter, cread, cadded, cworkers>>

tlsVars == <<tls, tstack, tgot>>

acVars == <<nextValue, agot, areturned>>

jamVars == <<jspawn, jfill, jfilled, jwaking>>

vars == <<execVars, mutexVars, chanVars, timerVars, poolVars, dlVars,
          selVars, blockVars, ctrVars, tlsVars, acVars, jamVars>>
notExec == <<mutexVars, chanVars, timerVars, poolVars, dlVars, selVars,
             blockVars, ctrVars,
    tlsVars, acVars, jamVars>>
notMutex == <<execVars, chanVars, timerVars, poolVars, dlVars, selVars,
              blockVars, ctrVars,
    tlsVars, acVars, jamVars>>
notChan == <<execVars, mutexVars, timerVars, poolVars, dlVars, selVars,
             blockVars, ctrVars,
    tlsVars, acVars, jamVars>>
notTimer == <<execVars, mutexVars, chanVars, poolVars, dlVars, selVars,
              blockVars, ctrVars,
    tlsVars, acVars, jamVars>>
notPool == <<execVars, mutexVars, chanVars, timerVars, dlVars, selVars,
             blockVars, ctrVars,
    tlsVars, acVars, jamVars>>
\* with_deadline works on the timer's variables and its own.
notDeadline == <<execVars, mutexVars, chanVars, poolVars, selVars, blockVars,
                 ctrVars,
    tlsVars, acVars, jamVars>>
notSelect == <<execVars, mutexVars, chanVars, timerVars, poolVars, dlVars,
               blockVars, ctrVars,
    tlsVars, acVars, jamVars>>
notBlock == <<execVars, mutexVars, chanVars, timerVars, poolVars, dlVars,
              selVars, ctrVars,
    tlsVars, acVars, jamVars>>
\* The tasks adding to the counter use the Mutex through its own actions.
notCounter == <<execVars, mutexVars, chanVars, timerVars, poolVars, dlVars,
                selVars, blockVars,
    tlsVars, acVars, jamVars>>

notTls == <<execVars, mutexVars, chanVars, timerVars, poolVars, dlVars,
           selVars, blockVars, ctrVars, acVars, jamVars>>
notAc == <<execVars, mutexVars, chanVars, timerVars, poolVars, dlVars,
          selVars, blockVars, ctrVars, tlsVars, jamVars>>
notJam == <<execVars, mutexVars, chanVars, poolVars, dlVars, selVars,
           blockVars, ctrVars, tlsVars, acVars>>

(***************************************************************************)
(* Executor and ready queue.                                               *)
(***************************************************************************)
\* sync_channel(size * 200)
Capacity == NumWorkers * QueueFactor

\* Arc::strong_count of the Executor: the user's handle and the temporary
\* Arc every wake holds between upgrade() and the return of schedule().
ExecStrong ==
    (IF userRef THEN 1 ELSE 0) + Cardinality({th \in Threads : tpc[th] = "wake"})

\* self.executor.upgrade() in TaskWaker::wake.
UpgradeIgnoringDrop == TRUE
Upgrade == ExecStrong > 0

\* self.sender.try_send(job) on success.
EnqueueTwice(q, t) == Append(Append(q, t), t)
Enqueue(q, t) == Append(q, t)

\* poll_task: Ready takes the future out of the cell, Pending leaves it.
CellKept(r) == "fut"
CellAfterPoll(r) == IF r = "Ready" THEN "empty" ELSE "fut"

\* The task cell's Mutex is held by the worker that is polling it.
CellNeverLocked(t) == FALSE
CellLocked(t) ==
    \E w \in Workers : job[w] = t /\ tpc[w] \in {"poll", "wake"}

\* The pc a thread returns to when wake() returns.
Resume(th) == IF th \in Workers THEN "poll" ELSE "ext"

RECURSIVE SumOver(_, _)
SumOver(f, S) ==
    IF S = {} THEN 0
    ELSE LET x == CHOOSE y \in S : TRUE IN f[x] + SumOver(f, S \ {x})

TotalWakes == SumOver(wakes, Tasks)

ExecInit ==
    /\ userRef = TRUE
    /\ queue = <<>>
    /\ tpc = [th \in Threads |-> IF th \in Workers THEN "idle" ELSE "ext"]
    /\ job = [w \in Workers |-> NoTask]
    /\ target = [th \in Threads |-> NoTask]
    /\ cell = [t \in Tasks |-> "unspawned"]
    /\ polls = [t \in Tasks |-> 0]
    /\ wakes = [t \in Tasks |-> 0]
    /\ ready = [t \in Tasks |-> FALSE]
    /\ skipped = [t \in Tasks |-> FALSE]
    /\ wokeDead = FALSE

\* Executor::spawn_unpin: box the future into a cell and schedule poll_task.
\* schedule() returns only once try_send succeeded.
Spawn(t) ==
    /\ userRef
    /\ cell[t] = "unspawned"
    /\ Len(queue) < Capacity
    /\ cell' = [cell EXCEPT ![t] = "fut"]
    /\ queue' = Enqueue(queue, t)
    /\ UNCHANGED <<userRef, tpc, job, target, polls, wakes, ready, skipped,
                   wokeDead>>
    /\ UNCHANGED notExec

\* The user drops its Arc<Executor>.
DropExecutor ==
    /\ userRef
    /\ userRef' = FALSE
    /\ UNCHANGED <<queue, tpc, job, target, cell, polls, wakes, ready,
                   skipped, wokeDead>>
    /\ UNCHANGED notExec

\* Inner::work: recv_timeout returned Ok(f).
WorkerRecv(w) ==
    /\ tpc[w] = "idle"
    /\ queue # <<>>
    /\ job' = [job EXCEPT ![w] = Head(queue)]
    /\ queue' = Tail(queue)
    /\ tpc' = [tpc EXCEPT ![w] = "check"]
    /\ UNCHANGED <<userRef, target, cell, polls, wakes, ready, skipped,
                   wokeDead>>
    /\ UNCHANGED notExec

\* Inner::work: recv_timeout returned Disconnected (the ThreadPool, hence its
\* SyncSender, is gone and the channel is drained).
WorkerExit(w) ==
    /\ tpc[w] = "idle"
    /\ queue = <<>>
    /\ ExecStrong = 0
    /\ tpc' = [tpc EXCEPT ![w] = "exited"]
    /\ UNCHANGED <<userRef, queue, job, target, cell, polls, wakes, ready,
                   skipped, wokeDead>>
    /\ UNCHANGED notExec

\* poll_task: if executor.strong_count() > 0
PollCheck(w) ==
    /\ tpc[w] = "check"
    /\ IF ExecStrong > 0
       THEN /\ tpc' = [tpc EXCEPT ![w] = "lock"]
            /\ job' = job
       ELSE /\ tpc' = [tpc EXCEPT ![w] = "idle"]
            /\ job' = [job EXCEPT ![w] = NoTask]
    /\ UNCHANGED <<userRef, queue, target, cell, polls, wakes, ready,
                   skipped, wokeDead>>
    /\ UNCHANGED notExec

\* poll_task: task.lock(), then poll the future if the cell holds one.
PollLock(w) ==
    /\ tpc[w] = "lock"
    /\ ~CellLocked(job[w])
    /\ IF cell[job[w]] = "fut"
       THEN /\ tpc' = [tpc EXCEPT ![w] = "poll"]
            /\ polls' = [polls EXCEPT ![job[w]] = @ + 1]
            /\ UNCHANGED <<job, skipped>>
       ELSE /\ tpc' = [tpc EXCEPT ![w] = "idle"]
            /\ skipped' = [skipped EXCEPT ![job[w]] = TRUE]
            /\ job' = [job EXCEPT ![w] = NoTask]
            /\ polls' = polls
    /\ UNCHANGED <<userRef, queue, target, cell, wakes, ready, wokeDead>>
    /\ UNCHANGED notExec

\* TaskWaker::wake invoked by thread th on a waker of task t: a worker
\* inside a poll (the future wakes a waker it holds), or an outside thread.
\* A waker of t exists once a poll of t has begun.
Wake(th, t) ==
    /\ tpc[th] = Resume(th)
    /\ polls[t] >= 1
    /\ TotalWakes < MaxWakes
    /\ wakes' = [wakes EXCEPT ![t] = @ + 1]
    /\ IF Upgrade
       THEN /\ wokeDead' = wokeDead
            /\ IF Len(queue) < Capacity
               THEN /\ queue' = Enqueue(queue, t)
                    /\ UNCHANGED <<tpc, target>>
               ELSE \* try_send returned Full: sleep_ms(10) and retry
                    /\ tpc' = [tpc EXCEPT ![th] = "wake"]
                    /\ target' = [target EXCEPT ![th] = t]
                    /\ queue' = queue
       ELSE /\ wokeDead' = TRUE
            /\ UNCHANGED <<queue, tpc, target>>
    /\ UNCHANGED <<userRef, job, cell, polls, ready, skipped>>
    /\ UNCHANGED notExec

\* ThreadPool::schedule: a retry of try_send that succeeds; wake returns and
\* drops its temporary Arc<Executor>.
ScheduleRetry(th) ==
    /\ tpc[th] = "wake"
    /\ Len(queue) < Capacity
    /\ queue' = Enqueue(queue, target[th])
    /\ tpc' = [tpc EXCEPT ![th] = Resume(th)]
    /\ target' = [target EXCEPT ![th] = NoTask]
    /\ UNCHANGED <<userRef, job, cell, polls, wakes, ready, skipped,
                   wokeDead>>
    /\ UNCHANGED notExec

\* poll_task: the future's poll returns r; the cell lock is released.
PollReturn(w, r) ==
    /\ tpc[w] = "poll"
    /\ cell' = [cell EXCEPT ![job[w]] = CellAfterPoll(r)]
    /\ ready' = [ready EXCEPT ![job[w]] = @ \/ (r = "Ready")]
    /\ tpc' = [tpc EXCEPT ![w] = "idle"]
    /\ job' = [job EXCEPT ![w] = NoTask]
    /\ UNCHANGED <<userRef, queue, target, polls, wakes, skipped, wokeDead>>
    /\ UNCHANGED notExec

(***************************************************************************)
(* The executor with futures whose poll may panic.  The panic unwinds      *)
(* through poll_task with the cell's MutexGuard alive, which poisons the   *)
(* cell, and through Inner::work, which ends the worker thread.  A dead    *)
(* worker is replaced by start_threads: in the loop of a live worker and   *)
(* at the top of every round of ThreadPool::schedule.                      *)
(***************************************************************************)
NoneDead == \A w \in Workers : tpc[w] # "dead"

\* Thread th is at a call of Inner::start_threads: a worker going round its
\* loop, a thread inside the retry loop of schedule, or a thread about to
\* call schedule for a spawn or a wake.
AtStartThreads(th) ==
    \/ th \in Workers /\ tpc[th] = "idle"
    \/ tpc[th] = "wake"
    \/ /\ tpc[th] = Resume(th)
       /\ \/ th \notin Workers /\ userRef /\ \E t \in Tasks : cell[t] = "unspawned"
          \/ Upgrade /\ TotalWakes < MaxWakes /\ \E t \in Tasks : polls[t] >= 1

\* Inner::start_threads: spawn threads until size are live.
StartThreads(th) ==
    /\ ~NoneDead
    /\ AtStartThreads(th)
    /\ tpc' = [u \in Threads |-> IF tpc[u] = "dead" THEN "idle" ELSE tpc[u]]
    /\ UNCHANGED <<userRef, queue, job, target, cell, polls, wakes, ready,
                   skipped, wokeDead>>
    /\ UNCHANGED notExec

\* spawn, wake and the retry in schedule send after start_threads; a worker
\* takes its next job after the start_threads that ended its last round.
SpawnOnPool(t) == NoneDead /\ Spawn(t)
WakeOnPool(th, t) == (Upgrade => NoneDead) /\ Wake(th, t)
ScheduleRetryOnPool(th) == NoneDead /\ ScheduleRetry(th)
WorkerRecvOnPool(w) == NoneDead /\ WorkerRecv(w)

\* poll_task: task.lock().unwrap() on a cell that is not poisoned.
PollLockOk(w) ==
    /\ tpc[w] = "lock"
    /\ cell[job[w]] # "poisoned"
    /\ PollLock(w)

\* poll_task: task.lock().unwrap() on a poisoned cell panics; the job is
\* dropped and the worker thread ends.
PollLockPoisoned(w) ==
    /\ tpc[w] = "lock"
    /\ ~CellLocked(job[w])
    /\ cell[job[w]] = "poisoned"
    /\ tpc' = [tpc EXCEPT ![w] = "dead"]
    /\ job' = [job EXCEPT ![w] = NoTask]
    /\ UNCHANGED <<userRef, queue, target, cell, polls, wakes, ready, skipped,
                   wokeDead>>
    /\ UNCHANGED notExec

\* The future's poll panics: the guard of the cell is dropped during the
\* unwinding, the cell keeps its future and is poisoned, the worker ends.
PollPanic(w) ==
    /\ tpc[w] = "poll"
    /\ cell' = [cell EXCEPT ![job[w]] = "poisoned"]
    /\ tpc' = [tpc EXCEPT ![w] = "dead"]
    /\ job' = [job EXCEPT ![w] = NoTask]
    /\ UNCHANGED <<userRef, queue, target, polls, wakes, ready, skipped,
                   wokeDead>>
    /\ UNCHANGED notExec

PanicNext ==
    \/ \E t \in Tasks : SpawnOnPool(t)
    \/ DropExecutor
    \/ \E th \in Threads : StartThreads(th)
    \/ \E w \in Workers : WorkerRecvOnPool(w)
    \/ \E w \in Workers : WorkerExit(w)
    \/ \E w \in Workers : PollCheck(w)
    \/ \E w \in Workers : PollLockOk(w)
    \/ \E w \in Workers : PollLockPoisoned(w)
    \/ \E th \in Threads, t \in Tasks : WakeOnPool(th, t)
    \/ \E th \in Threads : ScheduleRetryOnPool(th)
    \/ \E w \in Workers, r \in {"Pending", "Ready"} : PollReturn(w, r)
    \/ \E w \in Workers : PollPanic(w)

(***************************************************************************)
(* sync::Mutex: LockFuture::poll, MutexGuard::new, MutexGuard::drop.       *)
(* Every task runs lock().await, uses the guard and drops it, up to        *)
(* MaxRounds times.  A wake of a task's waker enqueues one poll job for it *)
(* (TaskWaker::wake); mJobs counts the jobs that have not run yet.         *)
(***************************************************************************)
Lockers == 1 .. NumLockers

\* The elements of a sequence.
Range(q) == {q[i] : i \in 1 .. Len(q)}

\* Wakers are told apart by an id: cx.waker().clone() of another poll is
\* another waker.  A new waker gets the least id no waker in use carries.
UsedIds ==
    {k.id : k \in Range(mWakers)}
    \cup UNION {{k.id : k \in Range(swapped[t])} : t \in Lockers}
FreshId == CHOOSE n \in 1 .. (Cardinality(UsedIds) + 1) : n \notin UsedIds

\* self.mutex.value.try_lock() succeeds iff nobody owns the value lock.
TryLockByFlag(t) == ~mLocked
TryLockOk(t) == \A u \in Lockers : ~holdsValue[u]

\* MutexGuard::drop, in program order: the block under the inner lock
\* (assert, locked = false, swap out the wakers), then value_guard.take(),
\* then the loop that wakes the wakers swapped out.
DropWakesFirst == <<"inner", "wake", "release">>
DropReleasesFirst == <<"release", "inner", "wake">>
DropOrder == <<"inner", "release", "wake">>

DropKind(t) == DropOrder[dstep[t]]

\* LockFuture::poll finding locked == true: guard.wakers.push_back(waker).
PushNoWaker(ws, k) == ws
PushWaker(ws, k) == Append(ws, k)

MutexInit ==
    /\ mLocked = FALSE
    /\ mWakers = <<>>
    /\ holdsValue = [t \in Lockers |-> FALSE]
    /\ mpc = [t \in Lockers |-> "parked"]
    /\ dstep = [t \in Lockers |-> 1]
    /\ taken = [t \in Lockers |-> <<>>]
    /\ swapped = [t \in Lockers |-> <<>>]
    /\ delivered = [t \in Lockers |-> <<>>]
    /\ mJobs = [t \in Lockers |-> 1]
    /\ rounds = [t \in Lockers |-> 0]
    /\ spurious = 0
    /\ assertFailed = FALSE

\* poll_task runs a poll job of task t: the task is suspended in
\* lock().await and its LockFuture is polled, or its future is complete and
\* the job finds the cell empty.
MPollStart(t) ==
    /\ ~assertFailed
    /\ mpc[t] \in {"parked", "done"}
    /\ mJobs[t] > 0
    /\ mJobs' = [mJobs EXCEPT ![t] = @ - 1]
    /\ mpc' = [mpc EXCEPT ![t] = IF mpc[t] = "parked" THEN "try" ELSE "done"]
    /\ UNCHANGED <<mLocked, mWakers, holdsValue, dstep, taken, swapped,
                   delivered, rounds, assertFailed>>
    /\ UNCHANGED <<spurious, notMutex>>

\* LockFuture::poll: match self.mutex.value.try_lock()
MTryLock(t) ==
    /\ ~assertFailed
    /\ mpc[t] = "try"
    /\ IF TryLockOk(t)
       THEN /\ holdsValue' = [holdsValue EXCEPT ![t] = TRUE]
            /\ mpc' = [mpc EXCEPT ![t] = "new"]
       ELSE /\ holdsValue' = holdsValue
            /\ mpc' = [mpc EXCEPT ![t] = "chk"]
    /\ UNCHANGED <<mLocked, mWakers, dstep, taken, swapped, delivered, mJobs,
                   rounds, assertFailed>>
    /\ UNCHANGED <<spurious, notMutex>>

\* MutexGuard::new: under the inner lock, assert!(!locked); locked = true.
\* A failed assert panics with the value guard and the inner guard alive,
\* which poisons both std mutexes: every later use of the Mutex panics.
MGuardNew(t) ==
    /\ ~assertFailed
    /\ mpc[t] = "new"
    /\ IF mLocked
       THEN /\ assertFailed' = TRUE
            /\ mpc' = [mpc EXCEPT ![t] = "panicked"]
            /\ holdsValue' = [holdsValue EXCEPT ![t] = FALSE]
            /\ mLocked' = mLocked
       ELSE /\ mLocked' = TRUE
            /\ mpc' = [mpc EXCEPT ![t] = "held"]
            /\ UNCHANGED <<holdsValue, assertFailed>>
    /\ UNCHANGED <<mWakers, dstep, taken, swapped, delivered, mJobs, rounds>>
    /\ UNCHANGED <<spurious, notMutex>>

\* LockFuture::poll after WouldBlock: under the inner lock, if locked push
\* the waker and return Pending, else go round the loop.
MCheckLocked(t) ==
    /\ ~assertFailed
    /\ mpc[t] = "chk"
    /\ IF mLocked
       THEN /\ mWakers' = PushWaker(mWakers, [task |-> t, id |-> FreshId])
            /\ mpc' = [mpc EXCEPT ![t] = "parked"]
       ELSE /\ mWakers' = mWakers
            /\ mpc' = [mpc EXCEPT ![t] = "try"]
    /\ UNCHANGED <<mLocked, holdsValue, dstep, taken, swapped, delivered,
                   mJobs, rounds, assertFailed>>
    /\ UNCHANGED <<spurious, notMutex>>

\* After the last step of the drop the task either locks again inside the
\* same poll or completes its future.
AfterDrop(t) ==
    IF rounds[t] + 1 < MaxRounds THEN {"try", "done"} ELSE {"done"}

\* One step of MutexGuard::drop by the task that owns the guard.
MDrop(t) ==
    /\ ~assertFailed
    /\ mpc[t] \in {"held", "drop"}
    /\ dstep[t] <= Len(DropOrder)
    /\ \/ /\ DropKind(t) = "inner"
          /\ IF ~mLocked
             THEN /\ assertFailed' = TRUE
                  /\ mpc' = [mpc EXCEPT ![t] = "panicked"]
                  /\ holdsValue' = [holdsValue EXCEPT ![t] = FALSE]
                  /\ UNCHANGED <<mLocked, mWakers, taken, swapped, dstep>>
             ELSE /\ mLocked' = FALSE
                  /\ taken' = [taken EXCEPT ![t] = mWakers]
                  /\ swapped' = [swapped EXCEPT ![t] = mWakers]
                  /\ mWakers' = <<>>
                  /\ mpc' = [mpc EXCEPT ![t] = "drop"]
                  /\ dstep' = [dstep EXCEPT ![t] = @ + 1]
                  /\ UNCHANGED <<holdsValue, assertFailed>>
          /\ UNCHANGED <<delivered, mJobs, rounds>>
       \/ /\ DropKind(t) = "release"
          /\ holdsValue' = [holdsValue EXCEPT ![t] = FALSE]
          /\ dstep' = [dstep EXCEPT ![t] = @ + 1]
          /\ mpc' = [mpc EXCEPT ![t] = "drop"]
          /\ UNCHANGED <<mLocked, mWakers, taken, swapped, delivered, mJobs,
                         rounds, assertFailed>>
       \/ /\ DropKind(t) = "wake"
          /\ taken[t] # <<>>
          /\ mJobs' = [mJobs EXCEPT ![Head(taken[t]).task] = @ + 1]
          /\ delivered' = [delivered EXCEPT ![t] = Append(@, Head(taken[t]))]
          /\ taken' = [taken EXCEPT ![t] = Tail(@)]
          /\ mpc' = [mpc EXCEPT ![t] = "drop"]
          /\ UNCHANGED <<mLocked, mWakers, holdsValue, dstep, swapped, rounds,
                         assertFailed>>
       \/ /\ DropKind(t) = "wake"
          /\ taken[t] = <<>>
          /\ dstep' = [dstep EXCEPT ![t] = @ + 1]
          /\ mpc' = [mpc EXCEPT ![t] = "drop"]
          /\ UNCHANGED <<mLocked, mWakers, holdsValue, taken, swapped,
                         delivered, mJobs, rounds, assertFailed>>
    /\ UNCHANGED <<spurious, notMutex>>

\* drop returns: the guard is gone.
MDropDone(t) ==
    /\ ~assertFailed
    /\ mpc[t] = "drop"
    /\ dstep[t] > Len(DropOrder)
    /\ \E p \in AfterDrop(t) : mpc' = [mpc EXCEPT ![t] = p]
    /\ rounds' = [rounds EXCEPT ![t] = @ + 1]
    /\ dstep' = [dstep EXCEPT ![t] = 1]
    /\ swapped' = [swapped EXCEPT ![t] = <<>>]
    /\ delivered' = [delivered EXCEPT ![t] = <<>>]
    /\ UNCHANGED <<mLocked, mWakers, holdsValue, taken, mJobs, assertFailed>>
    /\ UNCHANGED <<spurious, notMutex>>

\* A waker of task t held by another resource is invoked while t is
\* suspended in lock().await: TaskWaker::wake enqueues one more poll job.
MOtherWake(t) ==
    /\ ~assertFailed
    /\ mpc[t] = "parked"
    /\ spurious < MaxSpurious
    /\ spurious' = spurious + 1
    /\ mJobs' = [mJobs EXCEPT ![t] = @ + 1]
    /\ UNCHANGED <<mLocked, mWakers, holdsValue, mpc, dstep, taken, swapped,
                   delivered, rounds, assertFailed>>
    /\ UNCHANGED notMutex

MutexNext ==
    \/ \E t \in Lockers : MPollStart(t)
    \/ \E t \in Lockers : MTryLock(t)
    \/ \E t \in Lockers : MGuardNew(t)
    \/ \E t \in Lockers : MCheckLocked(t)
    \/ \E t \in Lockers : MDrop(t)
    \/ \E t \in Lockers : MDropDone(t)
    \/ \E t \in Lockers : MOtherWake(t)

(***************************************************************************)
(* Tasks that add 1 to a counter held in the Mutex: each task awaits       *)
(* lock(), does *guard += 1 (a read and a write through the guard) and     *)
(* drops the guard, all inside one poll; the polls run on the threads of   *)
(* the executor's async pool, so at most cworkers tasks are inside a poll. *)
(***************************************************************************)
NoRead == 0 - 1

\* *guard += 1 stores the value read plus one.
AddOne(v) == v + 1

\* Task t is inside a poll on a worker thread.
InPoll(t) == mpc[t] \in {"try", "new", "chk", "held", "drop"}

CounterInit ==
    /\ counter = 0
    /\ cread = [t \in Lockers |-> NoRead]
    /\ cadded = [t \in Lockers |-> 0]
    /\ cworkers = 0

\* Executor::new(w): the async pool gets w threads.
CExecutorNew(w) ==
    /\ cworkers = 0
    /\ cworkers' = w
    /\ UNCHANGED <<counter, cread, cadded>>
    /\ UNCHANGED notCounter

\* A worker thread that is free takes a poll job of task t.
MPollStartOnWorker(t) ==
    /\ Cardinality({u \in Lockers : InPoll(u)}) < cworkers
    /\ MPollStart(t)

\* *guard += 1, the read through DerefMut.
CRead(t) ==
    /\ mpc[t] = "held"
    /\ cadded[t] = rounds[t]
    /\ cread[t] = NoRead
    /\ cread' = [cread EXCEPT ![t] = counter]
    /\ UNCHANGED <<counter, cadded, cworkers>>
    /\ UNCHANGED notCounter

\* *guard += 1, the write.
CWrite(t) ==
    /\ mpc[t] = "held"
    /\ cread[t] # NoRead
    /\ counter' = AddOne(cread[t])
    /\ cadded' = [cadded EXCEPT ![t] = @ + 1]
    /\ cread' = [cread EXCEPT ![t] = NoRead]
    /\ UNCHANGED cworkers
    /\ UNCHANGED notCounter

\* The guard goes out of scope after the addition.
MDropAfterAdd(t) ==
    /\ mpc[t] = "held" => cadded[t] = rounds[t] + 1
    /\ MDrop(t)

CounterNext ==
    \/ \E w \in 1 .. NumLockers : CExecutorNew(w)
    \/ \E t \in Lockers : MPollStartOnWorker(t)
    \/ \E t \in Lockers : MTryLock(t)
    \/ \E t \in Lockers : MGuardNew(t)
    \/ \E t \in Lockers : MCheckLocked(t)
    \/ \E t \in Lockers : CRead(t)
    \/ \E t \in Lockers : CWrite(t)
    \/ \E t \in Lockers : MDropAfterAdd(t)
    \/ \E t \in Lockers : MDropDone(t)

(***************************************************************************)
(* Channels: SyncSender, SendFuture, OneSender, Receiver.  One channel is   *)
(* made, by sync_channel with NumSenders clones of the sender, each owned  *)
(* by its own task or thread, or by oneshot; the receiver is owned by one  *)
(* task.  A value is the pair of its sender and its number.                *)
(***************************************************************************)
Senders == 1 .. NumSenders
Values == Senders \X (1 .. MaxSends)
NoValue == <<0, 0>>

\* std try_send / send: the value goes to the back of the buffer.
Push(q, v) == Append(q, v)

\* std try_recv / recv: the front value leaves the buffer.
FifoAfterPeek(q) == q
FifoAfterRecv(q) == Tail(q)

\* SendFuture::poll on Full: the task's waker goes to the back of
\* sender_wakers.
ParkNoWaker(ws, s) == ws
ParkSender(ws, s) == Append(ws, s)

\* Take the receiver's waker and wake it if there was one: a poll job for
\* the receiver task.
WakeReceiverLost(jobs, w) == jobs
WakeReceiver(jobs, w) == IF w THEN jobs + 1 ELSE jobs

\* The std Receiver has been dropped.
RxGone == rpc = "gone"

\* OneSender::drop does self.sender.take(): a std sender that send() has
\* not consumed is dropped here.
SendersKeptOnDrop(n, unsent) == n
SendersAfterOneDrop(n, unsent) == IF unsent THEN n - 1 ELSE n

\* Sends begun so far, over all senders.
RECURSIVE TotalSent(_)
TotalSent(n) == IF n = 0 THEN 0 ELSE sent[n] + TotalSent(n - 1)
CanSend == TotalSent(NumSenders) < MaxSends

\* Invoke wake on each waker of a list of sender wakers: one poll job each.
WakeNone(jobs, ws) == jobs
RECURSIVE WakeAll(_, _)
WakeAll(jobs, ws) ==
    IF ws = <<>> THEN jobs
    ELSE WakeAll([jobs EXCEPT ![Head(ws)] = @ + 1], Tail(ws))

ChanInit ==
    /\ oneshot = FALSE
    /\ fifo = <<>>
    /\ stdSenders = 0
    /\ innerCount = 0
    /\ senderWakers = <<>>
    /\ receiverWaker = FALSE
    /\ spc = [s \in Senders |-> "none"]
    /\ sfValue = [s \in Senders |-> NoValue]
    /\ sent = [s \in Senders |-> 0]
    /\ rpc = "none"
    /\ sJobs = [s \in Senders |-> 0]
    /\ rJobs = 0
    /\ status = [v \in Values |-> "none"]
    /\ sentOk = <<>>
    /\ received = <<>>

\* sync_channel(bound): the SyncSender, cloned to NumSenders handles, and
\* the Receiver; each handle holds a std sender and the Arc<Inner>.
SyncChannelNew ==
    /\ rpc = "none"
    /\ oneshot' = FALSE
    /\ stdSenders' = NumSenders
    /\ innerCount' = NumSenders + 1
    /\ spc' = [s \in Senders |-> "idle"]
    /\ rpc' = "idle"
    /\ UNCHANGED <<fifo, senderWakers, receiverWaker, sfValue, sent, sJobs,
                   rJobs, status, sentOk, received>>
    /\ UNCHANGED notChan

\* oneshot(): one OneSender (sender 1) and the Receiver.
OneshotNew ==
    /\ rpc = "none"
    /\ oneshot' = TRUE
    /\ stdSenders' = 1
    /\ innerCount' = 2
    /\ spc' = [s \in Senders |-> IF s = 1 THEN "idle" ELSE "gone"]
    /\ rpc' = "idle"
    /\ UNCHANGED <<fifo, senderWakers, receiverWaker, sfValue, sent, sJobs,
                   rJobs, status, sentOk, received>>
    /\ UNCHANGED notChan

\* SyncSender::async_send: build the SendFuture (a clone of the std sender
\* and of the Arc<Inner>, the value in its Cell); the task then polls it.
SAsyncSend(s) ==
    /\ ~oneshot
    /\ spc[s] = "idle"
    /\ CanSend
    /\ sent' = [sent EXCEPT ![s] = @ + 1]
    /\ sfValue' = [sfValue EXCEPT ![s] = <<s, sent[s] + 1>>]
    /\ status' = [status EXCEPT ![<<s, sent[s] + 1>>] = "pending"]
    /\ stdSenders' = stdSenders + 1
    /\ innerCount' = innerCount + 1
    /\ spc' = [spc EXCEPT ![s] = "poll"]
    /\ UNCHANGED <<fifo, senderWakers, receiverWaker, rpc, sJobs, rJobs,
                   sentOk, received>>
    /\ UNCHANGED <<oneshot, notChan>>

\* SendFuture::poll, under the Inner lock: take the value and try_send it.
\* On Ready the SendFuture is dropped with its two clones.
SSendPoll(s) ==
    /\ spc[s] = "poll"
    /\ LET v == sfValue[s] IN
       IF RxGone
       THEN \* Disconnected: Ready(Err(SendError(value)))
            /\ status' = [status EXCEPT ![v] = "err"]
            /\ sfValue' = [sfValue EXCEPT ![s] = NoValue]
            /\ stdSenders' = stdSenders - 1
            /\ innerCount' = innerCount - 1
            /\ spc' = [spc EXCEPT ![s] = "idle"]
            /\ UNCHANGED <<fifo, senderWakers, sentOk>>
       ELSE IF Len(fifo) < ChanBound
       THEN \* Ok: Ready(Ok(())), then wake_receiver_if_ok
            /\ fifo' = Push(fifo, v)
            /\ sentOk' = Append(sentOk, v)
            /\ status' = [status EXCEPT ![v] = "pushed"]
            /\ stdSenders' = stdSenders - 1
            /\ innerCount' = innerCount - 1
            /\ spc' = [spc EXCEPT ![s] = "wakeRx"]
            /\ UNCHANGED <<sfValue, senderWakers>>
       ELSE \* Full: put the value back, store the waker, Pending
            /\ senderWakers' = ParkSender(senderWakers, s)
            /\ spc' = [spc EXCEPT ![s] = "pending"]
            /\ UNCHANGED <<fifo, sentOk, status, sfValue, stdSenders,
                           innerCount>>
    /\ UNCHANGED <<receiverWaker, sent, rpc, sJobs, rJobs, received>>
    /\ UNCHANGED <<oneshot, notChan>>

\* poll_task runs a poll job of a sender task suspended in async_send.
SPollJob(s) ==
    /\ spc[s] = "pending"
    /\ sJobs[s] > 0
    /\ sJobs' = [sJobs EXCEPT ![s] = @ - 1]
    /\ spc' = [spc EXCEPT ![s] = "poll"]
    /\ UNCHANGED <<fifo, stdSenders, innerCount, senderWakers, receiverWaker,
                   sfValue, sent, rpc, rJobs, status, sentOk, received>>
    /\ UNCHANGED <<oneshot, notChan>>

\* SyncSender::wake_receiver after a successful push: take the receiver's
\* waker under the lock and wake it; the send returns Ok.
SWakeReceiver(s) ==
    /\ spc[s] = "wakeRx"
    /\ receiverWaker' = FALSE
    /\ rJobs' = WakeReceiver(rJobs, receiverWaker)
    /\ status' = [status EXCEPT ![sfValue[s]] = "ok"]
    /\ sfValue' = [sfValue EXCEPT ![s] = NoValue]
    /\ spc' = [spc EXCEPT ![s] = "idle"]
    /\ UNCHANGED <<fifo, stdSenders, innerCount, senderWakers, sent, rpc,
                   sJobs, sentOk, received>>
    /\ UNCHANGED <<oneshot, notChan>>

\* SyncSender::try_send: one std try_send, then wake_receiver_if_ok.
STrySend(s) ==
    /\ ~oneshot
    /\ spc[s] = "idle"
    /\ CanSend
    /\ sent' = [sent EXCEPT ![s] = @ + 1]
    /\ LET v == <<s, sent[s] + 1>> IN
       IF ~RxGone /\ Len(fifo) < ChanBound
       THEN /\ fifo' = Push(fifo, v)
            /\ sentOk' = Append(sentOk, v)
            /\ status' = [status EXCEPT ![v] = "pushed"]
            /\ sfValue' = [sfValue EXCEPT ![s] = v]
            /\ spc' = [spc EXCEPT ![s] = "wakeRx"]
       ELSE \* Err(Full(value)) or Err(Disconnected(value))
            /\ status' = [status EXCEPT ![v] = "err"]
            /\ UNCHANGED <<fifo, sentOk, sfValue, spc>>
    /\ UNCHANGED <<stdSenders, innerCount, senderWakers, receiverWaker, rpc,
                   sJobs, rJobs, received>>
    /\ UNCHANGED <<oneshot, notChan>>

\* SyncSender::send: the std send blocks the thread while the buffer is
\* full; it returns when the value is pushed or the receiver is gone.
SSend(s) ==
    /\ ~oneshot
    /\ spc[s] \in {"idle", "blocked"}
    /\ spc[s] = "idle" => CanSend
    /\ LET v == IF spc[s] = "idle" THEN <<s, sent[s] + 1>> ELSE sfValue[s] IN
       /\ sent' = [sent EXCEPT ![s] = IF spc[s] = "idle" THEN @ + 1 ELSE @]
       /\ IF RxGone
          THEN /\ status' = [status EXCEPT ![v] = "err"]
               /\ sfValue' = [sfValue EXCEPT ![s] = NoValue]
               /\ spc' = [spc EXCEPT ![s] = "idle"]
               /\ UNCHANGED <<fifo, sentOk>>
          ELSE IF Len(fifo) < ChanBound
          THEN /\ fifo' = Push(fifo, v)
               /\ sentOk' = Append(sentOk, v)
               /\ status' = [status EXCEPT ![v] = "pushed"]
               /\ sfValue' = [sfValue EXCEPT ![s] = v]
               /\ spc' = [spc EXCEPT ![s] = "wakeRx"]
          ELSE /\ spc[s] = "idle"
               /\ status' = [status EXCEPT ![v] = "pending"]
               /\ sfValue' = [sfValue EXCEPT ![s] = v]
               /\ spc' = [spc EXCEPT ![s] = "blocked"]
               /\ UNCHANGED <<fifo, sentOk>>
    /\ UNCHANGED <<stdSenders, innerCount, senderWakers, receiverWaker, rpc,
                   sJobs, rJobs, received>>
    /\ UNCHANGED <<oneshot, notChan>>

\* SyncSender::drop, the body under the Inner lock: drop the std sender;
\* if strong_count(inner) <= 2 take the receiver's waker and wake it.  The
\* sender's own Arc<Inner> is still counted.
SDropBody(s) ==
    /\ ~oneshot
    /\ spc[s] = "idle"
    /\ stdSenders' = stdSenders - 1
    /\ IF innerCount <= 2
       THEN /\ receiverWaker' = FALSE
            /\ rJobs' = WakeReceiver(rJobs, receiverWaker)
       ELSE UNCHANGED <<receiverWaker, rJobs>>
    /\ spc' = [spc EXCEPT ![s] = "dropped"]
    /\ UNCHANGED <<fifo, innerCount, senderWakers, sfValue, sent, rpc, sJobs,
                   status, sentOk, received>>
    /\ UNCHANGED <<oneshot, notChan>>

\* OneSender::send: take the std sender and send the value on it; the
\* buffer of a oneshot has one slot and this is its only send, so it does
\* not block.  The std sender taken is dropped with the statement.
OSend(s) ==
    /\ oneshot
    /\ spc[s] = "idle"
    /\ sent[s] = 0
    /\ sent' = [sent EXCEPT ![s] = 1]
    /\ stdSenders' = stdSenders - 1
    /\ IF RxGone
       THEN /\ status' = [status EXCEPT ![<<s, 1>>] = "err"]
            /\ UNCHANGED <<fifo, sentOk>>
       ELSE /\ fifo' = Push(fifo, <<s, 1>>)
            /\ sentOk' = Append(sentOk, <<s, 1>>)
            /\ status' = [status EXCEPT ![<<s, 1>>] = "ok"]
    /\ spc' = [spc EXCEPT ![s] = "oneSent"]
    /\ UNCHANGED <<innerCount, senderWakers, receiverWaker, sfValue, rpc,
                   sJobs, rJobs, received>>
    /\ UNCHANGED <<oneshot, notChan>>

\* OneSender::drop, at the end of send or of an unused OneSender: under the
\* Inner lock drop the std sender if still there and take the receiver's
\* waker, then wake it.
ODrop(s) ==
    /\ oneshot
    /\ spc[s] \in {"idle", "oneSent"}
    /\ stdSenders' = SendersAfterOneDrop(stdSenders, spc[s] = "idle")
    /\ receiverWaker' = FALSE
    /\ rJobs' = WakeReceiver(rJobs, receiverWaker)
    /\ spc' = [spc EXCEPT ![s] = "dropped"]
    /\ UNCHANGED <<fifo, innerCount, senderWakers, sfValue, sent, rpc, sJobs,
                   status, sentOk, received>>
    /\ UNCHANGED <<oneshot, notChan>>

\* After drop() returned the fields are dropped: the Arc<Inner> count
\* goes down by one.
SDropFields(s) ==
    /\ spc[s] = "dropped"
    /\ innerCount' = innerCount - 1
    /\ spc' = [spc EXCEPT ![s] = "gone"]
    /\ UNCHANGED <<fifo, stdSenders, senderWakers, receiverWaker, sfValue,
                   sent, rpc, sJobs, rJobs, status, sentOk, received>>
    /\ UNCHANGED <<oneshot, notChan>>

\* Receiver::poll, under the Inner lock: try_recv, and on Empty with
\* senders alive store the waker.  The task polls when it starts to await
\* the receiver and when a poll job runs for it.
RPoll ==
    /\ \/ rpc = "idle" /\ rJobs' = rJobs
       \/ rpc = "parked" /\ rJobs > 0 /\ rJobs' = rJobs - 1
    /\ IF fifo # <<>>
       THEN \* Ok(value): release the lock, wake_senders, Ready(Ok(value))
            /\ received' = Append(received, Head(fifo))
            /\ fifo' = FifoAfterRecv(fifo)
            /\ rpc' = "wakeSenders"
            /\ UNCHANGED receiverWaker
       ELSE IF stdSenders = 0 \/ innerCount < 2
       THEN \* Disconnected, or Empty with no sender left: Ready(Err(RecvError))
            /\ rpc' = "failed"
            /\ UNCHANGED <<fifo, received, receiverWaker>>
       ELSE /\ receiverWaker' = TRUE
            /\ rpc' = "parked"
            /\ UNCHANGED <<fifo, received>>
    /\ UNCHANGED <<stdSenders, innerCount, senderWakers, spc, sfValue, sent,
                   sJobs, status, sentOk>>
    /\ UNCHANGED <<oneshot, notChan>>

\* Receiver::try_recv: one std try_recv, then wake_senders_if_ok.
RTryRecv ==
    /\ rpc = "idle"
    /\ fifo # <<>>
    /\ received' = Append(received, Head(fifo))
    /\ fifo' = FifoAfterRecv(fifo)
    /\ rpc' = "wakeSenders"
    /\ UNCHANGED <<stdSenders, innerCount, senderWakers, receiverWaker, spc,
                   sfValue, sent, sJobs, rJobs, status, sentOk>>
    /\ UNCHANGED <<oneshot, notChan>>

\* Receiver::wake_senders: take the whole sender_wakers list under the
\* lock and wake each waker.
RWakeSenders ==
    /\ rpc = "wakeSenders"
    /\ sJobs' = WakeAll(sJobs, senderWakers)
    /\ senderWakers' = <<>>
    /\ rpc' = "idle"
    /\ UNCHANGED <<fifo, stdSenders, innerCount, receiverWaker, spc, sfValue,
                   sent, rJobs, status, sentOk, received>>
    /\ UNCHANGED <<oneshot, notChan>>

\* The receiver task goes on after Err(RecvError).
RAfterError ==
    /\ rpc = "failed"
    /\ rpc' = "idle"
    /\ UNCHANGED <<fifo, stdSenders, innerCount, senderWakers, receiverWaker,
                   spc, sfValue, sent, sJobs, rJobs, status, sentOk, received>>
    /\ UNCHANGED <<oneshot, notChan>>

\* Receiver::drop: drop the std receiver with the buffered values, drop the
\* receiver's waker, wake every queued sender; then the Arc<Inner> goes.
RDrop ==
    /\ rpc \in {"idle", "parked"}
    /\ rpc' = "gone"
    /\ fifo' = <<>>
    /\ receiverWaker' = FALSE
    /\ sJobs' = WakeAll(sJobs, senderWakers)
    /\ senderWakers' = <<>>
    /\ innerCount' = innerCount - 1
    /\ UNCHANGED <<stdSenders, spc, sfValue, sent, rJobs, status, sentOk,
                   received>>
    /\ UNCHANGED <<oneshot, notChan>>

ChanNext ==
    \/ SyncChannelNew
    \/ OneshotNew
    \/ \E s \in Senders : SAsyncSend(s)
    \/ \E s \in Senders : SSendPoll(s)
    \/ \E s \in Senders : SPollJob(s)
    \/ \E s \in Senders : SWakeReceiver(s)
    \/ \E s \in Senders : STrySend(s)
    \/ \E s \in Senders : SSend(s)
    \/ \E s \in Senders : SDropBody(s)
    \/ \E s \in Senders : OSend(s)
    \/ \E s \in Senders : ODrop(s)
    \/ \E s \in Senders : SDropFields(s)
    \/ RPoll
    \/ RTryRecv
    \/ RWakeSenders
    \/ RAfterError
    \/ RDrop

(***************************************************************************)
(* Timer: timer_thread, schedule_wake, ScheduledWake, SleepFuture.  A      *)
(* registration is its index in regs.  The sender of the timer is a        *)
(* sync_channel(0): a send completes when the timer thread receives it.    *)
(***************************************************************************)
Sleepers == 1 .. NumSleepers
NoFire == [id |-> 0, at |-> 0]
\* A deadline of MaxTime could never be seen to pass.
Deadlines == 0 .. MaxTime - 1

\* timer_thread: the entry on top of the heap is fired when its instant is
\* before now.
DueAlways(instant, now) == TRUE
DueNever(instant, now) == FALSE
Due(instant, now) == instant < now

\* ScheduledWake::wake takes the waker: the slot is None afterwards.
SlotKept(w) == w
SlotAfterWake(w) == FALSE

\* BinaryHeap<Reverse<ScheduledWake>>: the top is an entry of least instant.
TopAny(h) == h
Top(h) == {m \in h : \A n \in h : regs[m].instant <= regs[n].instant}

\* The ScheduledWake a task blocked in schedule_wake is sending: the last
\* one built for its slot.
Sending(z) ==
    CHOOSE m \in 1 .. Len(regs) :
        /\ regs[m].slot = z
        /\ \A n \in 1 .. Len(regs) : regs[n].slot = z => n <= m

TimerInit ==
    /\ clock = 0
    /\ heap = {}
    /\ tmpc = "off"
    /\ slotW = [z \in Sleepers |-> FALSE]
    /\ deadline = [z \in Sleepers |-> 0]
    /\ zpc = [z \in Sleepers |-> "none"]
    /\ zJobs = [z \in Sleepers |-> 0]
    /\ zpolls = 0
    /\ regs = <<>>
    /\ arrived = <<>>
    /\ lastFired = NoFire
    /\ invoked = <<>>

\* TIMER_THREAD_SENDER holds the sender: start_timer_thread has run.
Started == tmpc # "off"

\* start_timer_thread: on the first call make the sync_channel(0), spawn the
\* timer thread and store the sender.
StartTimerThread ==
    /\ tmpc = "off"
    /\ tmpc' = "loop"
    /\ UNCHANGED <<clock, heap, slotW, deadline, zpc, zJobs, zpolls, regs,
                   arrived, lastFired, invoked>>
    /\ UNCHANGED notTimer

\* Time passes.
Tick ==
    /\ clock < MaxTime
    /\ clock' = clock + 1
    /\ UNCHANGED <<heap, tmpc, slotW, deadline, zpc, zJobs, zpolls,
                   regs, arrived, lastFired, invoked>>
    /\ UNCHANGED notTimer

\* timer_thread, top of the loop: peek the heap; with an entry, sample now
\* and either go to fire it or to wait for its instant; without, recv().
TPeek ==
    /\ tmpc = "loop"
    /\ IF heap = {}
       THEN tmpc' = "recv"
       ELSE \E m \in Top(heap) :
                tmpc' = IF Due(regs[m].instant, clock) THEN "fire" ELSE "wait"
    /\ UNCHANGED <<clock, heap, slotW, deadline, zpc, zJobs, zpolls, regs,
                   arrived, lastFired, invoked>>
    /\ UNCHANGED notTimer

\* heap.pop().unwrap().0.wake(): ScheduledWake::wake locks the slot, takes
\* the waker and wakes it if there was one.
TFire ==
    /\ tmpc = "fire"
    /\ \E m \in Top(heap) :
         LET z == regs[m].slot IN
         /\ heap' = heap \ {m}
         /\ lastFired' = [id |-> m, at |-> clock]
         /\ slotW' = [slotW EXCEPT ![z] = SlotAfterWake(@)]
         /\ IF slotW[z]
            THEN /\ zJobs' = [zJobs EXCEPT ![z] = @ + 1]
                 /\ invoked' = [invoked EXCEPT ![m] = @ + 1]
            ELSE UNCHANGED <<zJobs, invoked>>
    /\ tmpc' = "loop"
    /\ UNCHANGED <<clock, deadline, zpc, zpolls, regs, arrived>>
    /\ UNCHANGED notTimer

\* receiver.recv() / recv_timeout() returns Ok(new_wake): the rendezvous
\* with a task blocked in schedule_wake; the entry is pushed on the heap.
TRecv(z) ==
    /\ tmpc \in {"recv", "wait"}
    /\ zpc[z] = "sending"
    /\ heap' = heap \cup {Sending(z)}
    /\ arrived' = Append(arrived, Sending(z))
    /\ zpc' = [zpc EXCEPT ![z] = "pending"]
    /\ tmpc' = "loop"
    /\ UNCHANGED <<clock, slotW, deadline, zJobs, zpolls, regs, lastFired,
                   invoked>>
    /\ UNCHANGED notTimer

\* recv_timeout returns Err(Timeout): the duration from the sampled now to
\* the peeked instant has passed.
TTimeout ==
    /\ tmpc = "wait"
    /\ \E m \in Top(heap) : clock >= regs[m].instant
    /\ tmpc' = "loop"
    /\ UNCHANGED <<clock, heap, slotW, deadline, zpc, zJobs, zpolls,
                   regs, arrived, lastFired, invoked>>
    /\ UNCHANGED notTimer

\* SleepFuture::new(deadline), awaited by its task.
ZNew(z, d) ==
    /\ zpc[z] = "none"
    /\ zpolls < MaxPolls
    /\ zpolls' = zpolls + 1
    /\ deadline' = [deadline EXCEPT ![z] = d]
    /\ zpc' = [zpc EXCEPT ![z] = "check"]
    /\ UNCHANGED <<clock, heap, tmpc, slotW, zJobs, regs, arrived, lastFired,
                   invoked>>
    /\ UNCHANGED notTimer

\* SleepFuture::poll, first statement: Ready once the deadline is past.
ZCheck(z) ==
    /\ zpc[z] = "check"
    /\ zpc' = [zpc EXCEPT ![z] = IF deadline[z] < clock THEN "done"
                                 ELSE "replace"]
    /\ UNCHANGED <<clock, heap, tmpc, slotW, deadline, zJobs, zpolls,
                   regs, arrived, lastFired, invoked>>
    /\ UNCHANGED notTimer

\* SleepFuture::poll: replace the slot's waker; if the slot was None build
\* a ScheduledWake and send it (schedule_wake), else return Pending.
\* Without a timer thread schedule_wake fails, poll returns Ready(Err) and
\* the unwrap in sleep_until panics.
ZReplace(z) ==
    /\ zpc[z] = "replace"
    /\ slotW' = [slotW EXCEPT ![z] = TRUE]
    /\ IF slotW[z]
       THEN /\ zpc' = [zpc EXCEPT ![z] = "pending"]
            /\ UNCHANGED <<regs, invoked>>
       ELSE IF Started
       THEN /\ regs' = Append(regs, [instant |-> deadline[z], slot |-> z])
            /\ invoked' = Append(invoked, 0)
            /\ zpc' = [zpc EXCEPT ![z] = "sending"]
       ELSE /\ zpc' = [zpc EXCEPT ![z] = "panicked"]
            /\ UNCHANGED <<regs, invoked>>
    /\ UNCHANGED <<clock, heap, tmpc, deadline, zJobs, zpolls, arrived,
                   lastFired>>
    /\ UNCHANGED notTimer

\* poll_task runs a poll job the timer's wake enqueued for the task.
ZPollJob(z) ==
    /\ zpc[z] = "pending"
    /\ zJobs[z] > 0
    /\ zpolls < MaxPolls
    /\ zpolls' = zpolls + 1
    /\ zJobs' = [zJobs EXCEPT ![z] = @ - 1]
    /\ zpc' = [zpc EXCEPT ![z] = "check"]
    /\ UNCHANGED <<clock, heap, tmpc, slotW, deadline, regs, arrived,
                   lastFired, invoked>>
    /\ UNCHANGED notTimer

\* The task is polled for another reason than the timer's wake.
ZRepoll(z) ==
    /\ zpc[z] = "pending"
    /\ zpolls < MaxPolls
    /\ zpolls' = zpolls + 1
    /\ zpc' = [zpc EXCEPT ![z] = "check"]
    /\ UNCHANGED <<clock, heap, tmpc, slotW, deadline, zJobs, regs,
                   arrived, lastFired, invoked>>
    /\ UNCHANGED notTimer

TimerNext ==
    \/ StartTimerThread
    \/ Tick
    \/ TPeek
    \/ TFire
    \/ \E z \in Sleepers : TRecv(z)
    \/ TTimeout
    \/ \E z \in Sleepers, d \in Deadlines : ZNew(z, d)
    \/ \E z \in Sleepers : ZCheck(z)
    \/ \E z \in Sleepers : ZReplace(z)
    \/ \E z \in Sleepers : ZPollJob(z)
    \/ \E z \in Sleepers : ZRepoll(z)

(***************************************************************************)
(* The timer thread together with the executor's async pool.  The sleeping *)
(* tasks are spawned on an executor whose async pool has NumJamWorkers     *)
(* threads and a ready queue of size * 200 jobs (scaled to QueueFactor);   *)
(* their polls run on those threads.  A fired wake is TaskWaker::wake,     *)
(* which calls ThreadPool::schedule and retries while the queue is full.   *)
(***************************************************************************)
NoSleeper == 0
JamCapacity == NumJamWorkers * QueueFactor

\* Jobs in the ready queue of the async pool.
ReadyLen ==
    SumOver(zJobs, Sleepers)
    + Cardinality({z \in Sleepers : jspawn[z] = "queued"})
    + jfill

\* The sleeping tasks a worker of the async pool is inside a poll of.
BusyWith ==
    {z \in Sleepers :
        \/ zpc[z] \in {"check", "replace", "sending"}
        \/ (jspawn[z] = "taken" /\ zpc[z] = "none")}
WorkerFree == Cardinality(BusyWith) < NumJamWorkers

JamInit ==
    /\ jspawn = [z \in Sleepers |-> "no"]
    /\ jfill = 0
    /\ jfilled = 0
    /\ jwaking = NoSleeper

\* Executor::spawn of a sleeping task by a thread outside the pool:
\* schedule sends the first poll job once the ready queue has room.
JSpawnSleeper(z) ==
    /\ jspawn[z] = "no"
    /\ ReadyLen < JamCapacity
    /\ jspawn' = [jspawn EXCEPT ![z] = "queued"]
    /\ UNCHANGED <<jfill, jfilled, jwaking>>
    /\ UNCHANGED <<timerVars, notJam>>

\* Executor::spawn of another task by a thread outside the pool.
JSpawnOther ==
    /\ jfilled < MaxFill
    /\ ReadyLen < JamCapacity
    /\ jfill' = jfill + 1
    /\ jfilled' = jfilled + 1
    /\ UNCHANGED <<jspawn, jwaking>>
    /\ UNCHANGED <<timerVars, notJam>>

\* Inner::work: a free worker receives the poll job of another task and
\* runs it; that poll blocks on nothing.
JRunOther ==
    /\ WorkerFree
    /\ jfill > 0
    /\ jfill' = jfill - 1
    /\ UNCHANGED <<jspawn, jfilled, jwaking>>
    /\ UNCHANGED <<timerVars, notJam>>

\* Inner::work: a free worker receives the first poll job of a sleeping
\* task.
JTakeSpawn(z) ==
    /\ WorkerFree
    /\ jspawn[z] = "queued"
    /\ jspawn' = [jspawn EXCEPT ![z] = "taken"]
    /\ UNCHANGED <<jfill, jfilled, jwaking>>
    /\ UNCHANGED <<timerVars, notJam>>

\* The first poll of the task reaches sleep_until / sleep_for.
JNew(z, d) == jspawn[z] = "taken" /\ ZNew(z, d)

\* Inner::work: a free worker receives a poll job the timer's wake sent.
JPollJob(z) == WorkerFree /\ ZPollJob(z)

\* SleepFuture::poll locks the slot, which ScheduledWake::wake holds
\* locked while it invokes the waker.
JReplace(z) == ~(tmpc = "wake" /\ jwaking = z) /\ ZReplace(z)

\* heap.pop().unwrap().0.wake(): ScheduledWake::wake locks the slot and
\* takes the waker; with a waker it goes on to invoke it.
JFireTake ==
    /\ tmpc = "fire"
    /\ \E m \in Top(heap) :
         LET z == regs[m].slot IN
         /\ heap' = heap \ {m}
         /\ lastFired' = [id |-> m, at |-> clock]
         /\ slotW' = [slotW EXCEPT ![z] = SlotAfterWake(@)]
         /\ IF slotW[z]
            THEN /\ invoked' = [invoked EXCEPT ![m] = @ + 1]
                 /\ tmpc' = "wake"
                 /\ jwaking' = z
            ELSE /\ tmpc' = "loop"
                 /\ UNCHANGED <<invoked, jwaking>>
    /\ UNCHANGED <<clock, deadline, zpc, zJobs, zpolls, regs, arrived>>
    /\ UNCHANGED <<jspawn, jfill, jfilled>>
    /\ UNCHANGED notJam

\* TaskWaker::wake on the timer thread: ThreadPool::schedule does try_send
\* and returns on Ok; on Full it sleeps and tries again.
JSchedule ==
    /\ tmpc = "wake"
    /\ ReadyLen < JamCapacity
    /\ zJobs' = [zJobs EXCEPT ![jwaking] = @ + 1]
    /\ tmpc' = "loop"
    /\ jwaking' = NoSleeper
    /\ UNCHANGED <<clock, heap, slotW, deadline, zpc, zpolls, regs, arrived,
                   lastFired, invoked>>
    /\ UNCHANGED <<jspawn, jfill, jfilled>>
    /\ UNCHANGED notJam

JamNext ==
    \/ StartTimerThread
    \/ Tick
    \/ TPeek
    \/ JFireTake
    \/ JSchedule
    \/ \E z \in Sleepers : TRecv(z)
    \/ TTimeout
    \/ \E z \in Sleepers : JSpawnSleeper(z)
    \/ JSpawnOther
    \/ JRunOther
    \/ \E z \in Sleepers : JTakeSpawn(z)
    \/ \E z \in Sleepers, d \in Deadlines : JNew(z, d)
    \/ \E z \in Sleepers : ZCheck(z)
    \/ \E z \in Sleepers : JReplace(z)
    \/ \E z \in Sleepers : JPollJob(z)

(***************************************************************************)
(* with_deadline and with_timeout (src/src/timer/deadline.rs) over the     *)
(* same timer thread.  Each task awaits one DeadlineFuture around an inner *)
(* future; its slot, deadline, position and poll jobs are the timer's      *)
(* variables of the same index.  After with_deadline has returned the task *)
(* either completes ("finished") or goes on to wait for something else     *)
(* ("after").  Here zpolls counts the awaits begun and the wakes the inner *)
(* futures invoke.                                                         *)
(***************************************************************************)
Deadliners == 1 .. NumDeadliners
Continuations == {"after", "finished"}
NotDropped == 0 - 1

\* DeadlineFuture::poll, first statement: the deadline is before now.
PastNever(d, now) == FALSE
Past(d, now) == d < now

\* DeadlineFuture::poll returns Ready(Ok(r)) when inner returns Ready(r).
InnerNeverReturns(isReady) == FALSE
InnerReturns(isReady) == isReady

\* with_timeout: the deadline is now + duration.
TimeoutIsDuration(now, dur) == dur
TimeoutDeadline(now, dur) == now + dur

\* The waker a dropped DeadlineFuture leaves behind: the slot is shared
\* with the heap entry and nothing clears it.
SlotClearedOnDrop(w) == FALSE
SlotAfterDrop(w) == w

DeadlineInit ==
    /\ dctor = [z \in Sleepers |-> "none"]
    /\ innerReady = [z \in Sleepers |-> FALSE]
    /\ innerPolls = [z \in Sleepers |-> 0]
    /\ dres = [z \in Sleepers |-> "none"]
    /\ dropAt = [z \in Sleepers |-> NotDropped]

\* A task's first poll reaches with_deadline(inner, t).await: the
\* DeadlineFuture is made and its poll begins.
WithDeadline(z, t, r) ==
    /\ zpc[z] = "none"
    /\ zpolls < MaxPolls
    /\ zpolls' = zpolls + 1
    /\ deadline' = [deadline EXCEPT ![z] = t]
    /\ dctor' = [dctor EXCEPT ![z] = "deadline"]
    /\ innerReady' = [innerReady EXCEPT ![z] = r]
    /\ zpc' = [zpc EXCEPT ![z] = "dcheck"]
    /\ UNCHANGED <<clock, heap, tmpc, slotW, zJobs, regs, arrived, lastFired,
                   invoked, innerPolls, dres, dropAt>>
    /\ UNCHANGED notDeadline

\* A task's first poll reaches with_timeout(inner, dur).await: the deadline
\* is Instant::now() + dur, then as with_deadline.
WithTimeout(z, dur, r) ==
    /\ zpc[z] = "none"
    /\ zpolls < MaxPolls
    /\ TimeoutDeadline(clock, dur) \in Deadlines
    /\ zpolls' = zpolls + 1
    /\ deadline' = [deadline EXCEPT ![z] = TimeoutDeadline(clock, dur)]
    /\ dctor' = [dctor EXCEPT ![z] = "timeout"]
    /\ innerReady' = [innerReady EXCEPT ![z] = r]
    /\ zpc' = [zpc EXCEPT ![z] = "dcheck"]
    /\ UNCHANGED <<clock, heap, tmpc, slotW, zJobs, regs, arrived, lastFired,
                   invoked, innerPolls, dres, dropAt>>
    /\ UNCHANGED notDeadline

\* DeadlineFuture::poll, the deadline test: past the deadline the poll
\* returns Ready(Err(DeadlineExceeded)); with_deadline returns it and the
\* DeadlineFuture is dropped.
DCheck(z, k) ==
    /\ zpc[z] = "dcheck"
    /\ IF Past(deadline[z], clock)
       THEN /\ dres' = [dres EXCEPT ![z] = "DeadlineExceeded"]
            /\ zpc' = [zpc EXCEPT ![z] = k]
            /\ slotW' = [slotW EXCEPT ![z] = SlotAfterDrop(@)]
            /\ dropAt' = [dropAt EXCEPT ![z] = clock]
       ELSE /\ zpc' = [zpc EXCEPT ![z] = "dinner"]
            /\ UNCHANGED <<dres, slotW, dropAt>>
    /\ UNCHANGED <<clock, heap, tmpc, deadline, zJobs, zpolls, regs, arrived,
                   lastFired, invoked, dctor, innerReady, innerPolls>>
    /\ UNCHANGED notDeadline

\* DeadlineFuture::poll, the poll of inner: Ready(r) makes the poll return
\* Ready(Ok(r)); with_deadline returns Ok and the DeadlineFuture is dropped.
DInner(z, k) ==
    /\ zpc[z] = "dinner"
    /\ innerPolls' = [innerPolls EXCEPT ![z] = @ + 1]
    /\ IF InnerReturns(innerReady[z])
       THEN /\ dres' = [dres EXCEPT ![z] = "Ok"]
            /\ zpc' = [zpc EXCEPT ![z] = k]
            /\ slotW' = [slotW EXCEPT ![z] = SlotAfterDrop(@)]
            /\ dropAt' = [dropAt EXCEPT ![z] = clock]
       ELSE /\ zpc' = [zpc EXCEPT ![z] = "dreplace"]
            /\ UNCHANGED <<dres, slotW, dropAt>>
    /\ UNCHANGED <<clock, heap, tmpc, deadline, zJobs, zpolls, regs, arrived,
                   lastFired, invoked, dctor, innerReady>>
    /\ UNCHANGED notDeadline

\* DeadlineFuture::poll, the registration: replace the slot's waker; if the
\* slot was None build a ScheduledWake and send it (schedule_wake), else
\* return Pending.  Without a timer thread schedule_wake fails, the poll
\* returns Ready(Err(TimerThreadNotStarted)) and with_deadline panics.
DReplace(z) ==
    /\ zpc[z] = "dreplace"
    /\ slotW' = [slotW EXCEPT ![z] = TRUE]
    /\ IF slotW[z]
       THEN /\ zpc' = [zpc EXCEPT ![z] = "pending"]
            /\ UNCHANGED <<regs, invoked, dres>>
       ELSE IF Started
       THEN /\ regs' = Append(regs, [instant |-> deadline[z], slot |-> z])
            /\ invoked' = Append(invoked, 0)
            /\ zpc' = [zpc EXCEPT ![z] = "sending"]
            /\ UNCHANGED dres
       ELSE /\ zpc' = [zpc EXCEPT ![z] = "panicked"]
            /\ dres' = [dres EXCEPT ![z] = "TimerThreadNotStarted"]
            /\ UNCHANGED <<regs, invoked>>
    /\ UNCHANGED <<clock, heap, tmpc, deadline, zJobs, zpolls, arrived,
                   lastFired, dctor, innerReady, innerPolls, dropAt>>
    /\ UNCHANGED notDeadline

\* The inner future wakes the waker it was given on its last poll; r says
\* whether it has become ready or the wake is spurious.
InnerWake(z, r) ==
    /\ dctor[z] # "none"
    /\ dres[z] = "none"
    /\ innerPolls[z] > 0
    /\ ~innerReady[z]
    /\ zpolls < MaxPolls
    /\ zpolls' = zpolls + 1
    /\ innerReady' = [innerReady EXCEPT ![z] = r]
    /\ zJobs' = [zJobs EXCEPT ![z] = @ + 1]
    /\ UNCHANGED <<clock, heap, tmpc, slotW, deadline, zpc, regs, arrived,
                   lastFired, invoked, dctor, innerPolls, dres, dropAt>>
    /\ UNCHANGED notDeadline

\* poll_task runs a poll job of a task suspended in with_deadline: the
\* DeadlineFuture is polled again.
DPollJob(z) ==
    /\ dctor[z] # "none"
    /\ zpc[z] = "pending"
    /\ zJobs[z] > 0
    /\ zJobs' = [zJobs EXCEPT ![z] = @ - 1]
    /\ zpc' = [zpc EXCEPT ![z] = "dcheck"]
    /\ UNCHANGED <<clock, heap, tmpc, slotW, deadline, zpolls, regs, arrived,
                   lastFired, invoked>>
    /\ UNCHANGED dlVars
    /\ UNCHANGED notDeadline

\* poll_task runs a poll job of a task that has left with_deadline and is
\* waiting for something else: the task's future is polled and stays
\* Pending.
APollJob(z) ==
    /\ zpc[z] = "after"
    /\ zJobs[z] > 0
    /\ zJobs' = [zJobs EXCEPT ![z] = @ - 1]
    /\ UNCHANGED <<clock, heap, tmpc, slotW, deadline, zpc, zpolls, regs,
                   arrived, lastFired, invoked>>
    /\ UNCHANGED dlVars
    /\ UNCHANGED notDeadline

DeadlineNext ==
    \/ StartTimerThread
    \/ Tick
    \/ TPeek
    \/ TFire
    \/ \E z \in Deadliners : TRecv(z)
    \/ TTimeout
    \/ \E z \in Deadliners, t \in Deadlines, r \in BOOLEAN : WithDeadline(z, t, r)
    \/ \E z \in Deadliners, dur \in Deadlines, r \in BOOLEAN :
          WithTimeout(z, dur, r)
    \/ \E z \in Deadliners, k \in Continuations : DCheck(z, k)
    \/ \E z \in Deadliners, k \in Continuations : DInner(z, k)
    \/ \E z \in Deadliners : DReplace(z)
    \/ \E z \in Deadliners, r \in BOOLEAN : InnerWake(z, r)
    \/ \E z \in Deadliners : DPollJob(z)
    \/ \E z \in Deadliners : APollJob(z)

(***************************************************************************)
(* select (src/proto/src/select/mod.rs): one SelectFuture made by          *)
(* select_ab .. select_abcde and polled by its task, while its inputs      *)
(* become ready on other threads.                                          *)
(***************************************************************************)
\* SelectFuture has the five fields a .. e.
NumPositions == 5
Positions == 1 .. NumPositions
Arities == 2 .. NumPositions
SelValues == 1 .. NumSelValues
NoOut == [kind |-> "none", tag |-> 0, val |-> 0]
PendingOut == [kind |-> "Pending", tag |-> 0, val |-> 0]
PanicOut == [kind |-> "unreachable", tag |-> 0, val |-> 0]

\* SelectFuture::poll polls a, b, c, d, e in this order.
PollOrderReversed == <<5, 4, 3, 2, 1>>
PollOrder == <<1, 2, 3, 4, 5>>

\* The poll of the input at position p: positions a select_* function was
\* not given hold a PendingFuture.
PollInput(p) == p <= sarity /\ sready[p]

\* select_ab .. select_abcd convert OptionAbcde to their own enum; a tag
\* they were not given futures for is unreachable!().
Convert(n, p, v) ==
    IF p <= n THEN [kind |-> "Ready", tag |-> p, val |-> v] ELSE PanicOut

SelectInit ==
    /\ sarity = 0
    /\ sready = [p \in Positions |-> FALSE]
    /\ sval = [p \in Positions |-> 0]
    /\ spos = 0
    /\ slog = <<>>
    /\ sout = NoOut
    /\ spolls = 0

\* select_ab(a, b) .. select_abcde(a, .., e): n futures with the values
\* they will yield; those in rs are ready from the start.
SelectNew(n, vals, rs) ==
    /\ sarity = 0
    /\ sarity' = n
    /\ sval' = [p \in Positions |-> IF p <= n THEN vals[p] ELSE 0]
    /\ sready' = [p \in Positions |-> p \in rs]
    /\ UNCHANGED <<spos, slog, sout, spolls>>
    /\ UNCHANGED notSelect

\* An input future becomes ready (on whatever thread completes it).
InputReady(p) ==
    /\ sarity > 0
    /\ p <= sarity
    /\ ~sready[p]
    /\ sout.kind # "Ready"
    /\ sready' = [sready EXCEPT ![p] = TRUE]
    /\ UNCHANGED <<sarity, sval, spos, slog, sout, spolls>>
    /\ UNCHANGED notSelect

\* SelectFuture::poll is entered.
SelectPollBegin ==
    /\ sarity > 0
    /\ spos = 0
    /\ sout.kind \in {"none", "Pending"}
    /\ spolls < MaxSelPolls
    /\ spolls' = spolls + 1
    /\ spos' = 1
    /\ slog' = <<>>
    /\ sout' = NoOut
    /\ UNCHANGED <<sarity, sready, sval>>
    /\ UNCHANGED notSelect

\* SelectFuture::poll, one match: poll the next input; Ready returns
\* Ready with its tag (converted by the select_* function), Pending goes
\* on to the next input, and after e the poll returns Pending.
SelectPollInput ==
    /\ spos > 0
    /\ LET p == PollOrder[spos] IN
       /\ slog' = Append(slog, <<p, PollInput(p)>>)
       /\ IF PollInput(p)
          THEN /\ sout' = Convert(sarity, p, sval[p])
               /\ spos' = 0
          ELSE IF spos = NumPositions
          THEN /\ sout' = PendingOut
               /\ spos' = 0
          ELSE /\ sout' = sout
               /\ spos' = spos + 1
    /\ UNCHANGED <<sarity, sready, sval, spolls>>
    /\ UNCHANGED notSelect

SelectNext ==
    \/ \E n \in Arities :
          \E vals \in [1 .. n -> SelValues], rs \in SUBSET (1 .. n) :
            SelectNew(n, vals, rs)
    \/ \E p \in Positions : InputReady(p)
    \/ SelectPollBegin
    \/ SelectPollInput

(***************************************************************************)
(* The thread-local EXECUTOR of one thread (src/src/executor/mod.rs):      *)
(* poll_task, the closure of schedule_blocking and Executor::block_on_unpin *)
(* call set_thread_executor and keep the guard for the execution; user     *)
(* code may do the same.  A poll job or a blocking job is the outermost    *)
(* execution of a worker thread; block_on and a user guard may also begin  *)
(* inside another execution.                                               *)
(***************************************************************************)
Executors == 1 .. NumExecutors
NoExec == 0
OuterKinds == {"poll", "blocking", "block_on", "guard"}
InnerKinds == {"block_on", "guard"}

\* ThreadExecutorGuard::drop: EXECUTOR.with(Cell::take) leaves the default,
\* an empty Weak.
CellAfterGuardDrop(before) == NoExec

TlsInit ==
    /\ tls = NoExec
    /\ tstack = <<>>
    /\ tgot = NoExec

\* An execution of kind k owned by executor e begins:
\* let _guard = set_thread_executor(weak).
TlsEnter(k, e) ==
    /\ Len(tstack) < MaxNest
    /\ k \in (IF tstack = <<>> THEN OuterKinds ELSE InnerKinds)
    /\ tstack' = Append(tstack, [kind |-> k, exec |-> e])
    /\ tls' = e
    /\ UNCHANGED tgot
    /\ UNCHANGED notTls

\* The innermost execution ends and its guard is dropped.
TlsExit ==
    /\ tstack # <<>>
    /\ tstack' = SubSeq(tstack, 1, Len(tstack) - 1)
    /\ tls' = CellAfterGuardDrop(tls)
    /\ UNCHANGED tgot
    /\ UNCHANGED notTls

\* get_thread_executor(): take the Weak, upgrade it, put it back.
TlsGet ==
    /\ tgot' = tls
    /\ UNCHANGED <<tls, tstack>>
    /\ UNCHANGED notTls

TlsNext ==
    \/ \E k \in OuterKinds, e \in Executors : TlsEnter(k, e)
    \/ TlsExit
    \/ TlsGet

(***************************************************************************)
(* AtomicCounter (src/src/util/atomic_counter.rs): threads that share one  *)
(* counter call next; a call is the atomic fetch_add and, as a later step, *)
(* the return of the value to the caller.                                  *)
(***************************************************************************)
CounterThreads == 1 .. NumCounterThreads
NoCount == 0 - 1
Wrap == 2 ^ CounterBits

\* fetch_add(1, AcqRel): the value stored after the call; it wraps around.
FetchKeeps(v) == v
FetchAdd(v) == (v + 1) % Wrap

\* Calls begun so far.
CallsBegun ==
    Len(areturned) + Cardinality({t \in CounterThreads : agot[t] # NoCount})

AcInit ==
    /\ nextValue = 0
    /\ agot = [t \in CounterThreads |-> NoCount]
    /\ areturned = <<>>

\* AtomicCounter::next, the fetch_add: one atomic read-modify-write.
AcFetch(t) ==
    /\ agot[t] = NoCount
    /\ CallsBegun < MaxCalls
    /\ agot' = [agot EXCEPT ![t] = nextValue]
    /\ nextValue' = FetchAdd(nextValue)
    /\ UNCHANGED areturned
    /\ UNCHANGED notAc

\* AtomicCounter::next returns the previous value to its caller.
AcReturn(t) ==
    /\ agot[t] # NoCount
    /\ areturned' = Append(areturned, <<t, agot[t]>>)
    /\ agot' = [agot EXCEPT ![t] = NoCount]
    /\ UNCHANGED nextValue
    /\ UNCHANGED notAc

AcNext ==
    \/ \E t \in CounterThreads : AcFetch(t)
    \/ \E t \in CounterThreads : AcReturn(t)

(***************************************************************************)
(* block_on_unpin (src/src/executor/mod.rs): the calling thread polls the  *)
(* future with a fresh sync_channel(1) and BlockOnTaskWaker per loop       *)
(* iteration and blocks in recv() after a Pending.  The future and other   *)
(* threads may invoke any waker made so far, at any time.                  *)
(***************************************************************************)
BlockWakers == 1 .. MaxBlockPolls
Outputs == 1 .. NumOutputs
\* block_on has not returned.
NoOutput == 0

\* sender.send(()) on the sync_channel(1): the message is buffered whether
\* or not the receiver is already blocked in recv().
SendNeedsParked(parked) == IF parked THEN 1 ELSE 0
AfterSend(parked) == 1

BlockInit ==
    /\ bpc = "idle"
    /\ biter = 0
    /\ bmsg = 0
    /\ bwoken = [w \in BlockWakers |-> 0]
    /\ bearly = {}
    /\ bout = NoOutput
    /\ bwakes = 0

\* block_on_unpin is called: the first iteration makes its channel and
\* waker and polls the future.
BlockOn ==
    /\ bpc = "idle"
    /\ bpc' = "poll"
    /\ biter' = 1
    /\ UNCHANGED <<bmsg, bwoken, bearly, bout, bwakes>>
    /\ UNCHANGED notBlock

\* BlockOnTaskWaker::wake on the waker of iteration w: take the sender out
\* of the Option and send; a later wake finds None.  The send fails, and
\* is ignored, when the receiver of that iteration is gone.
BlockWake(w) ==
    /\ bpc # "idle"
    /\ w <= biter
    /\ bwakes < MaxBlockWakes
    /\ bwakes' = bwakes + 1
    /\ bwoken' = [bwoken EXCEPT ![w] = @ + 1]
    /\ bmsg' = IF bwoken[w] = 0 /\ w = biter /\ bpc # "done"
               THEN AfterSend(bpc = "park")
               ELSE bmsg
    /\ bearly' = IF bwoken[w] = 0 /\ w = biter /\ bpc = "poll"
                 THEN bearly \cup {w}
                 ELSE bearly
    /\ UNCHANGED <<bpc, biter, bout>>
    /\ UNCHANGED notBlock

\* The poll of the future returns: Ready(v) makes block_on return v,
\* Pending sends the thread to receiver.recv().
BlockPollReturn(r, v) ==
    /\ bpc = "poll"
    /\ IF r = "Ready"
       THEN bpc' = "done" /\ bout' = v
       ELSE bpc' = "park" /\ bout' = bout
    /\ UNCHANGED <<biter, bmsg, bwoken, bearly, bwakes>>
    /\ UNCHANGED notBlock

\* receiver.recv() returns the message; the loop starts over with a new
\* channel and waker and polls again.
BlockRecv ==
    /\ bpc = "park"
    /\ bmsg > 0
    /\ biter < MaxBlockPolls
    /\ bmsg' = 0
    /\ biter' = biter + 1
    /\ bpc' = "poll"
    /\ UNCHANGED <<bwoken, bearly, bout, bwakes>>
    /\ UNCHANGED notBlock

BlockNext ==
    \/ BlockOn
    \/ \E w \in BlockWakers : BlockWake(w)
    \/ \E r \in {"Pending", "Ready"}, v \in Outputs : BlockPollReturn(r, v)
    \/ BlockRecv

(***************************************************************************)
(* ThreadPool (src/src/threadpool/mod.rs) on its own: new, schedule,       *)
(* try_schedule, drop and join, the workers' loop and their respawning.    *)
(* Thread 0 owns the pool; callers borrow it; workers are numbered in the  *)
(* order they are spawned.  Thread spawning always succeeds.               *)
(***************************************************************************)
Owner == 0
Callers == 1 .. NumCallers
\* Worker threads that can ever be started: size, one per job that may
\* panic, and one more.
MaxThreads == MaxSize + MaxJobs + 1
PWorkers == (NumCallers + 1) .. (NumCallers + MaxThreads)
PThreads == {Owner} \cup Callers \cup PWorkers
NoJob == 0
JobKinds == {"ok", "panic"}

\* ThreadPool::new: the parameters are accepted.
AnyParams(size, nameEmpty) == TRUE
ValidParams(size, nameEmpty) == size >= 1 /\ ~nameEmpty

\* sync_channel(size * 200), scaled to size * QueueFactor.
PoolCapacity == psize * QueueFactor

\* try_send finds room in the queue.
HasRoomAlways(q) == TRUE
HasRoom(q) == Len(q) < PoolCapacity

\* recv_timeout returns the job at the front of the queue.
TakeLast(q) == <<q[Len(q)], SubSeq(q, 1, Len(q) - 1)>>
TakeFirst(q) == <<Head(q), Tail(q)>>

\* schedule on Full: the job comes back in the error and is kept.
JobLostOnFull(j) == NoJob
JobAfterFull(j) == j

\* try_schedule sends the job before it calls start_threads.
TryPushLater(q, j) == q
TryPush(q, j) == Append(q, j)

\* try_schedule on Full returns at once; on Ok it goes on to start_threads.
TryFullThenStart == "st"
TryFullThenReturn == "idle"

\* A worker thread that exists: its closure owns an Arc<Inner>.
LiveWorkers == {w \in PWorkers : ppc[w] \in {"recv", "st", "clone", "run"}}

\* The std sender of the pool is alive.
SenderAlive == pool \in {"ctor", "alive"}

\* The Arc<Inner> of a worker whose job panicked is dropped by the unwind.
DeadStillCounted == Cardinality({w \in PWorkers : ppc[w] = "dead"})
HeldByDead == 0

\* Arc::strong_count(inner): the pool (or join's clone), one per worker,
\* one per thread inside start_thread.
StrongCount ==
    (IF pool \in {"ctor", "alive", "joining"} THEN 1 ELSE 0)
    + Cardinality(LiveWorkers)
    + Cardinality({t \in PThreads : ppc[t] = "clone"})
    + HeldByDead

\* Inner::num_live_threads
NumLive == StrongCount - 1

\* Where a thread goes when start_threads returns.
AfterStart(t) ==
    IF t \in PWorkers THEN (IF hold[t] # NoJob THEN "run" ELSE "recv")
    ELSE IF hold[t] # NoJob THEN "push" ELSE "idle"

PoolInit ==
    /\ pool = "none"
    /\ psize = 0
    /\ pqueue = <<>>
    /\ ppc = [t \in PThreads |-> IF t \in PWorkers THEN "none" ELSE "idle"]
    /\ hold = [t \in PThreads |-> NoJob]
    /\ jkind = <<>>
    /\ pushed = <<>>
    /\ dequeued = <<>>
    /\ ran = {}
    /\ tryRes = [t \in Callers |-> "none"]
    /\ tryJob = [t \in Callers |-> NoJob]

\* ThreadPool::new(name, size): Err(Parameter) on an empty name or size < 1;
\* else make the channel and the Inner and call start_threads.
PoolNew(size, nameEmpty) ==
    /\ pool = "none"
    /\ psize' = size
    /\ IF ValidParams(size, nameEmpty)
       THEN /\ pool' = "ctor"
            /\ ppc' = [ppc EXCEPT ![Owner] = "st"]
       ELSE /\ pool' = "failed"
            /\ UNCHANGED ppc
    /\ UNCHANGED <<pqueue, hold, jkind, pushed, dequeued, ran, tryRes, tryJob>>
    /\ UNCHANGED notPool

\* Inner::start_threads, the loop test: while num_live_threads() < size call
\* start_thread, which first clones the Arc; else return Ok.  new returns
\* the pool when its start_threads returns.
StartLoop(t) ==
    /\ ppc[t] = "st"
    /\ IF NumLive < psize
       THEN /\ ppc' = [ppc EXCEPT ![t] = "clone"]
            /\ UNCHANGED <<pool, tryJob>>
       ELSE /\ ppc' = [ppc EXCEPT ![t] = AfterStart(t)]
            /\ pool' = IF t = Owner THEN "alive" ELSE pool
            /\ tryJob' = [c \in Callers |->
                             IF c = t /\ hold[t] = NoJob THEN NoJob
                             ELSE tryJob[c]]
    /\ UNCHANGED <<psize, pqueue, hold, jkind, pushed, dequeued, ran, tryRes>>
    /\ UNCHANGED notPool

\* Inner::start_thread after the clone: if num_live_threads() - 1 < size
\* spawn a worker that owns the clone, else drop the clone; return Ok.
\* At most MaxThreads workers are ever spawned.
StartThread(t) ==
    /\ ppc[t] = "clone"
    /\ IF NumLive - 1 < psize
       THEN \E w \in PWorkers :
              /\ ppc[w] = "none"
              /\ \A u \in PWorkers : u < w => ppc[u] # "none"
              /\ ppc' = [ppc EXCEPT ![t] = "st", ![w] = "recv"]
       ELSE ppc' = [ppc EXCEPT ![t] = "st"]
    /\ UNCHANGED <<pool, psize, pqueue, hold, jkind, pushed, dequeued, ran,
                   tryRes, tryJob>>
    /\ UNCHANGED notPool

\* Inner::work, the receive: recv_timeout under the receiver lock returns
\* the front job, or Timeout on an empty queue, or Disconnected on an empty
\* queue whose sender is gone (the worker returns).
WorkRecv(w) ==
    /\ w \in PWorkers
    /\ ppc[w] = "recv"
    /\ IF pqueue # <<>>
       THEN /\ hold' = [hold EXCEPT ![w] = TakeFirst(pqueue)[1]]
            /\ pqueue' = TakeFirst(pqueue)[2]
            /\ dequeued' = Append(dequeued, TakeFirst(pqueue)[1])
            /\ ppc' = [ppc EXCEPT ![w] = "st"]
       ELSE /\ ppc' = [ppc EXCEPT ![w] = IF SenderAlive THEN "st"
                                        ELSE "exited"]
            /\ UNCHANGED <<hold, pqueue, dequeued>>
    /\ UNCHANGED <<pool, psize, jkind, pushed, ran, tryRes, tryJob>>
    /\ UNCHANGED notPool

\* Inner::work, f(): the job runs; a panic unwinds the worker thread, else
\* the loop goes on with start_threads.
WorkRun(w) ==
    /\ w \in PWorkers
    /\ ppc[w] = "run"
    /\ ran' = ran \cup {hold[w]}
    /\ hold' = [hold EXCEPT ![w] = NoJob]
    /\ ppc' = [ppc EXCEPT ![w] = IF jkind[hold[w]] = "panic" THEN "dead"
                                 ELSE "st"]
    /\ UNCHANGED <<pool, psize, pqueue, jkind, pushed, dequeued, tryRes, tryJob>>
    /\ UNCHANGED notPool

\* ThreadPool::schedule(f): box the job and enter the loop at start_threads.
Schedule(c, k) ==
    /\ pool = "alive"
    /\ ppc[c] = "idle"
    /\ Len(jkind) < MaxJobs
    /\ jkind' = Append(jkind, k)
    /\ hold' = [hold EXCEPT ![c] = Len(jkind) + 1]
    /\ ppc' = [ppc EXCEPT ![c] = "st"]
    /\ UNCHANGED <<pool, psize, pqueue, pushed, dequeued, ran, tryRes, tryJob>>
    /\ UNCHANGED notPool

\* ThreadPool::schedule, the try_send: Ok returns; Full keeps the job,
\* sleeps and goes round the loop again.
SchedulePush(c) ==
    /\ ppc[c] = "push"
    /\ IF HasRoom(pqueue)
       THEN /\ pqueue' = Append(pqueue, hold[c])
            /\ pushed' = Append(pushed, hold[c])
            /\ hold' = [hold EXCEPT ![c] = NoJob]
            /\ ppc' = [ppc EXCEPT ![c] = "idle"]
       ELSE /\ hold' = [hold EXCEPT ![c] = JobAfterFull(@)]
            /\ ppc' = [ppc EXCEPT ![c] = "st"]
            /\ UNCHANGED <<pqueue, pushed>>
    /\ UNCHANGED <<pool, psize, jkind, dequeued, ran, tryRes, tryJob>>
    /\ UNCHANGED notPool

\* ThreadPool::try_schedule(f): one try_send; Full returns Err(QueueFull),
\* Ok goes on to start_threads and returns its result.
TrySchedule(c, k) ==
    /\ pool = "alive"
    /\ ppc[c] = "idle"
    /\ Len(jkind) < MaxJobs
    /\ jkind' = Append(jkind, k)
    /\ IF HasRoom(pqueue)
       THEN /\ pqueue' = TryPush(pqueue, Len(jkind) + 1)
            /\ pushed' = TryPush(pushed, Len(jkind) + 1)
            /\ tryJob' = [tryJob EXCEPT ![c] = Len(jkind) + 1]
            /\ tryRes' = [tryRes EXCEPT ![c] = "Ok"]
            /\ ppc' = [ppc EXCEPT ![c] = "st"]
       ELSE /\ tryRes' = [tryRes EXCEPT ![c] = "QueueFull"]
            /\ tryJob' = [tryJob EXCEPT ![c] = NoJob]
            /\ ppc' = [ppc EXCEPT ![c] = TryFullThenReturn]
            /\ UNCHANGED <<pqueue, pushed>>
    /\ UNCHANGED <<pool, psize, hold, dequeued, ran>>
    /\ UNCHANGED notPool

\* drop(pool): the pool's Arc<Inner> and the std sender go.  The owner can
\* drop or join only when no caller borrows the pool.
PoolDrop ==
    /\ pool = "alive"
    /\ \A c \in Callers : ppc[c] = "idle"
    /\ pool' = "dropped"
    /\ UNCHANGED <<psize, pqueue, ppc, hold, jkind, pushed, dequeued, ran,
                   tryRes, tryJob>>
    /\ UNCHANGED notPool

\* ThreadPool::join, first part: clone the Arc<Inner>, drop the pool.
PoolJoin ==
    /\ pool = "alive"
    /\ \A c \in Callers : ppc[c] = "idle"
    /\ pool' = "joining"
    /\ UNCHANGED <<psize, pqueue, ppc, hold, jkind, pushed, dequeued, ran,
                   tryRes, tryJob>>
    /\ UNCHANGED notPool

\* ThreadPool::join, the loop: return when num_live_threads() is 0.
JoinReturn ==
    /\ pool = "joining"
    /\ NumLive = 0
    /\ pool' = "joined"
    /\ UNCHANGED <<psize, pqueue, ppc, hold, jkind, pushed, dequeued, ran,
                   tryRes, tryJob>>
    /\ UNCHANGED notPool

\* Inner::start_thread when std::thread::Builder::spawn returns Err: the
\* closure with the clone is dropped and start_threads returns NoThreads
\* if no thread was live, else Respawn.  new fails; a worker ignores the
\* error; schedule sleeps and retries on NoThreads and goes on to try_send
\* on Respawn; try_schedule returns the error.
SpawnError == IF NumLive - 1 = 0 THEN "NoThreads" ELSE "Respawn"

StartThreadFails(t) ==
    /\ ppc[t] = "clone"
    /\ NumLive - 1 < psize
    /\ IF t = Owner
       THEN /\ pool' = "failed"
            /\ ppc' = [ppc EXCEPT ![t] = "idle"]
            /\ UNCHANGED tryRes
       ELSE IF t \in PWorkers
       THEN /\ ppc' = [ppc EXCEPT ![t] = AfterStart(t)]
            /\ UNCHANGED <<pool, tryRes>>
       ELSE IF hold[t] # NoJob
       THEN /\ ppc' = [ppc EXCEPT ![t] = IF SpawnError = "NoThreads"
                                         THEN "st" ELSE "push"]
            /\ UNCHANGED <<pool, tryRes>>
       ELSE /\ tryRes' = [tryRes EXCEPT ![t] = SpawnError]
            /\ ppc' = [ppc EXCEPT ![t] = "idle"]
            /\ UNCHANGED pool
    /\ UNCHANGED <<psize, pqueue, hold, jkind, pushed, dequeued, ran, tryJob>>
    /\ UNCHANGED notPool

PoolNext ==
    \/ \E size \in 0 .. MaxSize, nameEmpty \in BOOLEAN : PoolNew(size, nameEmpty)
    \/ \E t \in PThreads : StartLoop(t)
    \/ \E t \in PThreads : StartThread(t)
    \/ \E w \in PWorkers : WorkRecv(w)
    \/ \E w \in PWorkers : WorkRun(w)
    \/ \E c \in Callers, k \in JobKinds : Schedule(c, k)
    \/ \E c \in Callers : SchedulePush(c)
    \/ \E c \in Callers, k \in JobKinds : TrySchedule(c, k)
    \/ PoolDrop
    \/ PoolJoin
    \/ JoinReturn

\* The pool on a system where spawning a thread may fail.
PoolFailNext ==
    \/ PoolNext
    \/ \E t \in PThreads : StartThreadFails(t)

Init ==
    /\ ExecInit /\ MutexInit /\ ChanInit /\ TimerInit /\ PoolInit
    /\ DeadlineInit /\ SelectInit /\ BlockInit /\ CounterInit
    /\ TlsInit /\ AcInit /\ JamInit

Next ==
    \/ \E t \in Tasks : Spawn(t)
    \/ DropExecutor
    \/ \E w \in Workers : WorkerRecv(w)
    \/ \E w \in Workers : WorkerExit(w)
    \/ \E w \in Workers : PollCheck(w)
    \/ \E w \in Workers : PollLock(w)
    \/ \E th \in Threads, t \in Tasks : Wake(th, t)
    \/ \E th \in Threads : ScheduleRetry(th)
    \/ \E w \in Workers, r \in {"Pending", "Ready"} : PollReturn(w, r)

Spec == Init /\ [][Next]_vars

SpecPanic == Init /\ [][PanicNext]_vars

SpecMutex == Init /\ [][MutexNext]_vars

SpecChan == Init /\ [][ChanNext]_vars

\* The channel with its tasks scheduled fairly: code that is running goes
\* on, a task with a poll job is polled, and the receiver keeps receiving
\* while it is not dropped.
ChanFairness ==
    /\ \A s \in Senders : WF_vars(SSendPoll(s))
    /\ \A s \in Senders : WF_vars(SPollJob(s))
    /\ \A s \in Senders : WF_vars(SWakeReceiver(s))
    /\ WF_vars(RWakeSenders)
    /\ WF_vars(RAfterError)
    /\ WF_vars(RPoll \/ RTryRecv)

SpecChanFair == Init /\ [][ChanNext]_vars /\ ChanFairness

SpecTimer == Init /\ [][TimerNext]_vars

SpecPool == Init /\ [][PoolNext]_vars

SpecPoolFail == Init /\ [][PoolFailNext]_vars

SpecDeadline == Init /\ [][DeadlineNext]_vars

SpecSelect == Init /\ [][SelectNext]_vars

SpecBlock == Init /\ [][BlockNext]_vars

SpecTls == Init /\ [][TlsNext]_vars

SpecAc == Init /\ [][AcNext]_vars

SpecJam == Init /\ [][JamNext]_vars

SpecCounter == Init /\ [][CounterNext]_vars

\* The tasks of the counter scheduled fairly: a free worker takes a poll
\* job that is queued, and code that is running goes on.
CounterFairness ==
    /\ \A t \in Lockers : WF_vars(MPollStartOnWorker(t))
    /\ \A t \in Lockers : WF_vars(MTryLock(t))
    /\ \A t \in Lockers : WF_vars(MGuardNew(t))
    /\ \A t \in Lockers : WF_vars(MCheckLocked(t))
    /\ \A t \in Lockers : WF_vars(CRead(t))
    /\ \A t \in Lockers : WF_vars(CWrite(t))
    /\ \A t \in Lockers : WF_vars(MDropAfterAdd(t))
    /\ \A t \in Lockers : WF_vars(MDropDone(t))

SpecCounterFair == Init /\ [][CounterNext]_vars /\ CounterFairness

\* with_deadline with time passing, the timer thread running once started
\* and the executor polling: the clock advances, the timer thread takes
\* its next step, a poll that has begun goes on, and a poll job is run.
DeadlineFairness ==
    /\ WF_vars(Tick)
    /\ WF_vars(TPeek)
    /\ WF_vars(TFire)
    /\ WF_vars(TTimeout)
    /\ \A z \in Deadliners : WF_vars(TRecv(z))
    /\ \A z \in Deadliners : WF_vars(\E k \in Continuations : DCheck(z, k))
    /\ \A z \in Deadliners : WF_vars(\E k \in Continuations : DInner(z, k))
    /\ \A z \in Deadliners : WF_vars(DReplace(z))
    /\ \A z \in Deadliners : WF_vars(DPollJob(z))

SpecDeadlineFair == Init /\ [][DeadlineNext]_vars /\ DeadlineFairness

\* The pool with its threads scheduled fairly: a thread that is inside
\* start_threads, the work loop, schedule's retry loop or join's wait loop
\* takes its next step.  Calling schedule, try_schedule, drop and join is
\* up to the program that uses the pool.
PoolFairness ==
    /\ \A t \in PThreads : WF_vars(StartLoop(t))
    /\ \A t \in PThreads : WF_vars(StartThread(t))
    /\ \A w \in PWorkers : WF_vars(WorkRecv(w))
    /\ \A w \in PWorkers : WF_vars(WorkRun(w))
    /\ \A c \in Callers : WF_vars(SchedulePush(c))
    /\ WF_vars(JoinReturn)

SpecPoolFair == Init /\ [][PoolNext]_vars /\ PoolFairness

(***************************************************************************)
(* Executor properties.                                                    *)
(***************************************************************************)
\* A worker that cannot take another step: it retries try_send on a full
\* queue inside wake, or waits for a task cell held by such a worker.
Blocked(w) ==
    \/ tpc[w] = "wake"
    \/ /\ tpc[w] = "lock"
       /\ \E v \in Workers : job[v] = job[w] /\ tpc[v] = "wake"

\* C4: every wake invoked on a waker of a task whose future is not complete
\* is eventually followed by a poll of that future while the executor is
\* alive and a worker is live. Stated on states: no wake is ever stuck, that
\* is, there is no state where a wake on a live task is waiting in schedule
\* for room in the ready queue, the executor is alive, and every worker is
\* blocked so that nothing can take a job from the full queue any more.
C4_WakeIsFollowedByPoll ==
    ~ \E th \in Threads :
        /\ tpc[th] = "wake"
        /\ cell[target[th]] = "fut"
        /\ userRef
        /\ Len(queue) = Capacity
        /\ \A w \in Workers : Blocked(w)

\* C5: once the future of a task has returned Ready its cell is empty and
\* stays empty, and no step polls the future again.
C5_CompletionIsFinal ==
    [][\A t \in Tasks :
         ready[t] => /\ cell[t] = "empty"
                     /\ cell'[t] = "empty"
                     /\ polls'[t] = polls[t]]_vars

\* A poll job ran for a completed task and found the cell empty.
C5_Witness ==
    \E t \in Tasks : ready[t] /\ skipped[t] /\ wakes[t] >= 1

\* C6: for every task, polls performed <= wakes invoked + 1.
C6_PollsBoundedByWakes ==
    \A t \in Tasks : polls[t] <= wakes[t] + 1

\* The bound is met after several wakes.
C6_Witness ==
    \E t \in Tasks : wakes[t] >= 2 /\ polls[t] = wakes[t] + 1

\* C9: a wake invoked when no strong reference to the Executor is left
\* enqueues no poll job and changes nothing but the count of wakes.
C9_WakeAfterDropIsNoOp ==
    [][(ExecStrong = 0 /\ wakes' # wakes) =>
          /\ queue' = queue
          /\ tpc' = tpc
          /\ UNCHANGED <<userRef, job, target, cell, polls, ready>>]_vars

\* A wake was invoked on a dropped executor while a poll job of a live task
\* could still have been enqueued.
C9_Witness ==
    /\ wokeDead
    /\ ExecStrong = 0
    /\ \E t \in Tasks : cell[t] = "fut" /\ wakes[t] >= 1

(***************************************************************************)
(* Mutex properties.                                                       *)
(***************************************************************************)
\* Tasks that own the value lock, and tasks that own a MutexGuard whose
\* value_guard is still Some.
ValueHolders == {t \in Lockers : holdsValue[t]}
Guards == {t \in ValueHolders : mpc[t] \in {"held", "drop"}}

\* C1: at most one MutexGuard exists at any instant: at most one task owns
\* the value lock, and while locked is true exactly the guard's owner does.
C1_AtMostOneGuard ==
    /\ Cardinality(ValueHolders) <= 1
    /\ Cardinality(Guards) <= 1
    /\ \A t \in Lockers : mpc[t] = "held" => (mLocked /\ holdsValue[t])

\* One task owns the guard while another one, polled concurrently, has been
\* refused by try_lock and a third poll is parked in the FIFO.
C1_Witness ==
    \E t, u \in Lockers :
        /\ t # u
        /\ mpc[t] = "held"
        /\ mpc[u] = "chk"
        /\ mWakers # <<>>

\* The ids of the wakers in a sequence.
Ids(q) == {k.id : k \in Range(q)}

\* The step is the one of t's drop that runs under the inner lock.
InnerStep(t) ==
    /\ mpc[t] \in {"held", "drop"}
    /\ dstep[t] <= Len(DropOrder)
    /\ DropKind(t) = "inner"
    /\ dstep'[t] # dstep[t]

\* The step is one in which t's drop invokes wake on a waker.
WakeStep(t) == Len(delivered'[t]) > Len(delivered[t])

\* The step is the return of t's drop.
DropReturn(t) == mpc[t] = "drop" /\ mpc'[t] # "drop" /\ ~assertFailed'

\* C10: dropping a MutexGuard takes every queued waker out of the FIFO and
\* sets locked to false in one step under the inner lock; it invokes wake
\* only after that and after it has released the value lock (if locked is
\* true again, another task owns the value lock); each wake is of the next
\* removed waker and enqueues one poll job for its task; when drop returns
\* every removed waker has been woken exactly once, in FIFO order; and the
\* FIFO never holds a waker the running drop removed.
C10_DropWakesAllAfterRelease ==
    [][\A t \in Lockers :
         /\ InnerStep(t) =>
              /\ mWakers' = <<>>
              /\ ~mLocked'
              /\ taken'[t] = mWakers
              /\ swapped'[t] = mWakers
         /\ WakeStep(t) =>
              /\ ~holdsValue[t]
              /\ mLocked => \E u \in Lockers \ {t} : holdsValue[u]
              /\ Len(delivered'[t]) = Len(delivered[t]) + 1
              /\ delivered'[t] = SubSeq(swapped[t], 1, Len(delivered'[t]))
              /\ LET k == delivered'[t][Len(delivered'[t])]
                 IN mJobs' = [mJobs EXCEPT ![k.task] = @ + 1]
         /\ DropReturn(t) =>
              /\ delivered[t] = swapped[t]
              /\ taken[t] = <<>>
              /\ ~holdsValue[t]
         /\ Ids(mWakers') \cap Ids(swapped'[t]) = {}]_vars

\* A drop has removed two wakers and woken both while another task already
\* owns the mutex again.
C10_Witness ==
    \E t \in Lockers :
        /\ mpc[t] = "drop"
        /\ Len(swapped[t]) >= 2
        /\ delivered[t] = swapped[t]
        /\ ~holdsValue[t]
        /\ \E u \in Lockers \ {t} : mpc[u] = "held"


(***************************************************************************)
(* Claims about the channel, checked under SpecChan.                       *)
(***************************************************************************)
IsPrefix(p, q) == Len(p) <= Len(q) /\ SubSeq(q, 1, Len(p)) = p

C3_LastSenderDropWakes ==
    (\A s \in Senders : spc[s] = "gone")
        => ~(rpc = "parked" /\ fifo = <<>> /\ rJobs = 0)


\* C11: once the Receiver is dropped no sender task is left parked without
\* a poll job on its way, and an async_send poll that runs after the drop
\* returns the error with its value, which is neither buffered nor received.
C11_ReceiverDropWakesSenders ==
    [][/\ RxGone' => \A s \in Senders : spc'[s] = "pending" => sJobs'[s] > 0
       /\ \A s \in Senders :
            (RxGone /\ spc[s] = "poll" /\ spc'[s] # "poll") =>
                /\ status'[sfValue[s]] = "err"
                /\ spc'[s] = "idle"
                /\ sfValue[s] \notin Range(fifo') \cup Range(received')
      ]_vars

\* The receiver was dropped while two senders were parked on the full
\* channel: one has been polled again and got the error, the other still
\* has its poll job waiting.
C11_Witness ==
    /\ RxGone
    /\ \E s, t \in Senders :
         /\ s # t
         /\ spc[s] = "pending" /\ sJobs[s] > 0
         /\ sent[t] > 0 /\ status[<<t, sent[t]>>] = "err"
         /\ spc[t] = "idle" /\ sJobs[t] = 0
         /\ Len(sentOk) = ChanBound

\* C12: an async_send polled on the full channel returns Pending with its
\* waker stored and its value kept; wake_senders after a receive wakes every
\* parked sender, so a parked sender is never left without a poll job while
\* the channel has room; and a parked sender eventually gets Ready(Ok)
\* unless the receiver is dropped.
C12_ParkedAtFull(s) ==
    (spc[s] = "poll" /\ spc'[s] # "poll" /\ ~RxGone /\ Len(fifo) >= ChanBound)
        => /\ spc'[s] = "pending"
           /\ s \in Range(senderWakers')
           /\ sfValue'[s] = sfValue[s]
           /\ status'[sfValue[s]] = "pending"
           /\ fifo' = fifo

C12_WakeSendersWakesAll ==
    (rpc = "wakeSenders" /\ rpc' # "wakeSenders")
        => /\ senderWakers' = <<>>
           /\ \A s \in Range(senderWakers) : sJobs'[s] > sJobs[s]

C12_NoParkedSenderWithRoom ==
    \A s \in Senders :
        (spc[s] = "pending" /\ sJobs[s] = 0 /\ ~RxGone)
            => /\ s \in Range(senderWakers)
               /\ Len(fifo) < ChanBound => rpc = "wakeSenders"

C13_NoLostReceiverWake ==
    (rpc = "parked" /\ fifo # <<>> /\ rJobs = 0)
        => \E s \in Senders : spc[s] \in {"wakeRx", "oneSent"}

\* The receiver parked on an empty oneshot, the OneSender then pushed its
\* value and its drop woke the receiver, which has not been polled yet.
C13_Witness ==
    /\ oneshot
    /\ rpc = "parked" /\ ~receiverWaker /\ rJobs > 0
    /\ fifo # <<>>
    /\ spc[1] \in {"dropped", "gone"}

(***************************************************************************)
(* Claims about the timer, checked under SpecTimer.                        *)
(***************************************************************************)
Pos(q, m) == CHOOSE i \in 1 .. Len(q) : q[i] = m

\* C7: no registration is fired at a clock value earlier than its instant.
C7_NeverFiresEarly ==
    lastFired # NoFire => lastFired.at >= regs[lastFired.id].instant

\* A registration has just fired that reached the timer while it held a
\* registration of a later instant, which is not due yet and still in the
\* heap.
C7_Witness ==
    /\ lastFired # NoFire
    /\ \E a \in heap :
         /\ Pos(arrived, a) < Pos(arrived, lastFired.id)
         /\ regs[lastFired.id].instant < regs[a].instant
         /\ lastFired.at <= regs[a].instant

\* C8: firing a registration leaves its slot empty and invokes a waker only
\* if the slot held one; no registration invokes a waker more than once.
C8_FireTakesWakerOnce ==
    [][\A m \in 1 .. Len(regs) :
         (m \in heap /\ m \notin heap') =>
            /\ slotW'[regs[m].slot] = FALSE
            /\ invoked'[m] <= 1
            /\ (~slotW[regs[m].slot] => invoked'[m] = invoked[m] /\ zJobs' = zJobs)
            /\ \A n \in 1 .. Len(regs) : n # m => invoked'[n] = invoked[n]
      ]_vars

\* Two registrations of the same slot have both fired and each invoked the
\* waker once.
C8_Witness ==
    \E a, b \in 1 .. Len(regs) :
        /\ a # b
        /\ regs[a].slot = regs[b].slot
        /\ invoked[a] = 1 /\ invoked[b] = 1


(***************************************************************************)
(* Claims about the thread pool, checked under SpecPool.                   *)
(***************************************************************************)
\* C14: the ready queue never holds more jobs than size * 200 (here
\* size * QueueFactor), whoever pushes.
C14_QueueBounded == Len(pqueue) <= psize * QueueFactor

\* The queue is full with the job one caller pushed, while the other
\* caller is about to try_send inside schedule.
C14_Witness ==
    /\ pool = "alive"
    /\ Len(pqueue) = psize * QueueFactor
    /\ \E c \in Callers : ppc[c] = "push" /\ hold[c] # NoJob

\* C15: workers receive jobs in the order their pushes succeeded.
C15_DequeueInPushOrder == IsPrefix(dequeued, pushed)

\* Two jobs were pushed and two different workers have received them.
C15_Witness ==
    /\ Len(dequeued) >= 2
    /\ \E v, w \in PWorkers :
         /\ v # w
         /\ hold[v] = dequeued[1]
         /\ hold[w] = dequeued[2]

\* C16: a try_schedule that finds the queue full returns Err(QueueFull) at
\* once: the job is not pushed, the queue is as before and no thread moves,
\* so none is started.
C16_TryScheduleOnFull ==
    [][(Len(jkind') > Len(jkind) /\ hold' = hold /\ ~HasRoom(pqueue))
         => /\ pqueue' = pqueue
            /\ pushed' = pushed
            /\ ppc' = ppc
            /\ \E c \in Callers : ppc[c] = "idle" /\ tryRes'[c] = "QueueFull"
      ]_vars

\* try_schedule has returned QueueFull: the rejected job is the last one
\* made and is not among the pushed ones, and the queue is still full.
C16_Witness ==
    /\ pool = "alive"
    /\ \E c \in Callers : tryRes[c] = "QueueFull" /\ ppc[c] = "idle"
    /\ jkind # <<>> /\ Len(jkind) \notin Range(pushed)
    /\ \A t \in PThreads : hold[t] # Len(jkind)
    /\ ~HasRoom(pqueue)


\* C17: ThreadPool::new fails with Parameter and starts no thread when
\* size < 1 or the name is empty; otherwise it returns a pool with exactly
\* size live worker threads, and num_live_threads() equals size() at the
\* moment new returns.
C17_NewStartsSizeWorkers ==
    [][/\ (pool = "none" /\ pool' = "ctor") => psize' >= 1
       /\ (pool = "none" /\ pool' = "failed") => LiveWorkers' = {}
       /\ (pool = "ctor" /\ pool' = "alive") =>
              Cardinality(LiveWorkers') = psize /\ NumLive' = psize]_vars

\* How many times job j occurs in a sequence of jobs.
Occ(seq, j) == Cardinality({i \in DOMAIN seq : seq[i] = j})

\* C18: schedule returns only after its job has been pushed onto the queue,
\* and pushes it exactly once: a job leaves the caller's hand only in the
\* step that returns, that step is the one push of the job, and no job is
\* ever in the pushed sequence twice, with full-queue retries, two callers
\* and workers that die and are respawned.
C18_SchedulePushesOnce ==
    [][/\ \A c \in Callers :
            /\ (hold[c] # NoJob /\ hold'[c] # hold[c]) => ppc'[c] = "idle"
            /\ (hold[c] # NoJob /\ ppc'[c] = "idle") =>
                   /\ Occ(pushed, hold[c]) = 0
                   /\ Occ(pushed', hold[c]) = 1
                   /\ Occ(pqueue', hold[c]) = 1
       /\ \A j \in 1 .. Len(jkind') : Occ(pushed', j) <= 1]_vars

\* Both callers have returned from schedule (nobody called try_schedule),
\* two jobs went through a queue of capacity one, and a worker has died.
C18_Witness ==
    /\ \A c \in Callers : tryRes[c] = "none" /\ ppc[c] = "idle"
    /\ Len(pushed) >= 2
    /\ PoolCapacity = 1
    /\ \E w \in PWorkers : ppc[w] = "dead"

\* A thread is inside the loop of schedule or in try_schedule's
\* start_threads.
Scheduling(c) == ppc[c] \in {"st", "clone", "push"}

\* C19: a job that panics terminates exactly the one worker that ran it;
\* and while the pool is alive, whenever fewer than size workers are live
\* and a worker is live or a caller is inside schedule, the number of live
\* workers gets back to size (unless the pool is dropped first, or every
\* worker dies with nobody scheduling).
C19_PanicKillsOneAndPoolRecovers ==
    /\ [][\A w \in PWorkers :
            (ppc[w] = "run" /\ ppc'[w] # "run" /\ jkind[hold[w]] = "panic")
            => /\ LiveWorkers' = LiveWorkers \ {w}
               /\ StrongCount' = StrongCount - 1]_vars
    /\ (/\ pool = "alive"
        /\ Cardinality(LiveWorkers) < psize
        /\ (LiveWorkers # {} \/ \E c \in Callers : Scheduling(c)))
       ~> \/ Cardinality(LiveWorkers) = psize
          \/ pool # "alive"
          \/ (LiveWorkers = {} /\ \A c \in Callers : ~Scheduling(c))

\* A pool of two workers is back at full strength after a panic killed one
\* of them, and a respawned worker is among the live ones.
C19_Witness ==
    /\ pool = "alive"
    /\ psize = 2
    /\ \E w \in PWorkers : ppc[w] = "dead"
    /\ Cardinality(LiveWorkers) = psize
    /\ \E w, d \in PWorkers : d < w /\ ppc[d] = "dead" /\ w \in LiveWorkers

\* While the pool is alive, spawning is never held up by the supply of
\* worker threads (MaxThreads): only a panic makes room for a new worker.
SpawnHasName ==
    \A t \in PThreads :
        (pool \in {"ctor", "alive"} /\ ppc[t] = "clone" /\ NumLive - 1 < psize)
        => \E w \in PWorkers : ppc[w] = "none"

\* C20: after the pool is dropped or joined, every job that was already
\* in the queue is still executed by some worker before the workers exit,
\* and join returns only in a state with zero live workers.  Stated on
\* states: join has returned only if no worker is live, and once the pool is
\* gone and no worker (and no thread about to spawn one) is left, every job
\* that was pushed has been run.
C20_DropDrainsQueue ==
    /\ pool = "joined" => LiveWorkers = {}
    /\ (/\ pool \in {"dropped", "joined"}
        /\ LiveWorkers = {}
        /\ \A t \in PThreads : ppc[t] # "clone")
       => \A j \in 1 .. Len(jkind) : Occ(pushed, j) = 1 => j \in ran

(***************************************************************************)
(* Claims about with_deadline and with_timeout, checked under              *)
(* SpecDeadline.                                                           *)
(***************************************************************************)
\* The registrations built for slot z.
RegsOf(z) == {m \in 1 .. Len(regs) : regs[m].slot = z}

\* C21: a poll of with_deadline(inner, t) that finds t already in the past
\* returns Err(DeadlineExceeded) on that poll, without polling inner and
\* without registering anything with the timer (no ScheduledWake built, no
\* waker stored, nothing sent).
C21_PastDeadlineFailsAtOnce ==
    [][\A z \in Deadliners :
         (zpc[z] = "dcheck" /\ zpc'[z] # "dcheck" /\ deadline[z] < clock)
         => /\ dres'[z] = "DeadlineExceeded"
            /\ zpc'[z] \in Continuations
            /\ innerPolls' = innerPolls
            /\ regs' = regs /\ heap' = heap /\ slotW' = slotW]_vars

\* with_deadline was first polled past its deadline with an inner future
\* that was ready: it returned DeadlineExceeded, inner was never polled and
\* the timer holds nothing of it.
C21_Witness ==
    \E z \in Deadliners :
        /\ dctor[z] = "deadline"
        /\ dres[z] = "DeadlineExceeded"
        /\ innerReady[z]
        /\ innerPolls[z] = 0
        /\ RegsOf(z) = {} /\ ~slotW[z]
        /\ Started

\* C22: with_timeout(inner, d) whose inner future is ready on its first
\* poll, the deadline not yet passed, returns Ok on that poll and submits no
\* ScheduledWake, with or without a timer thread: the first poll of a ready
\* inner is the step that returns Ok, and until then the future has done
\* nothing but the deadline test, so no registration of its slot exists.
C22_ReadyInnerSkipsTimer ==
    [][\A z \in Deadliners :
         /\ (dctor[z] = "timeout" /\ innerReady[z]
              /\ innerPolls[z] = 0 /\ innerPolls'[z] = 1)
            => /\ dres'[z] = "Ok"
               /\ zpc'[z] \in Continuations
               /\ regs' = regs /\ heap' = heap /\ tmpc' = tmpc
         /\ (dctor'[z] = "timeout" /\ innerReady'[z] /\ innerPolls'[z] = 0)
            => /\ zpc'[z] \in {"dcheck", "dinner"}
                  \/ dres'[z] = "DeadlineExceeded"
               /\ RegsOf(z)' = {}
               /\ ~slotW'[z]]_vars

\* with_timeout returned Ok from the first poll of its inner future while
\* no timer thread had been started, and nothing was registered.
C22_Witness ==
    \E z \in Deadliners :
        /\ ~Started
        /\ dctor[z] = "timeout"
        /\ dres[z] = "Ok"
        /\ innerPolls[z] = 1
        /\ regs = <<>>

\* The same with the timer thread running.
C22_WitnessStarted ==
    \E z \in Deadliners :
        /\ Started
        /\ dctor[z] = "timeout"
        /\ dres[z] = "Ok"
        /\ innerPolls[z] = 1
        /\ regs = <<>>

C27_StaleFireIsNoOp ==
    [][\A z \in Deadliners :
         (/\ dres[z] = "Ok"
          /\ dropAt[z] < deadline[z]
          /\ \E m \in RegsOf(z) : m \in heap /\ m \notin heap')
         => \/ ~slotW[z]
            \/ zpc[z] = "finished"
            \/ zJobs'[z] = zJobs[z]]_vars

\* C29: a SleepFuture submits at most one ScheduledWake to the timer over
\* its whole lifetime, however often it is polled: no slot ever has two
\* registrations.
C29_AtMostOneEntry == \A z \in Sleepers : Cardinality(RegsOf(z)) <= 1

(***************************************************************************)
(* Claims about select, checked under SpecSelect.                          *)
(***************************************************************************)
\* The first n inputs were polled in declared order and all but possibly
\* the last returned Pending.
PolledInOrder(n) ==
    /\ Len(slog) = n
    /\ \A i \in 1 .. n : slog[i][1] = i
    /\ \A i \in 1 .. n - 1 : slog[i][2] = FALSE

\* What a poll has done so far agrees with what it returned.
SelectShape ==
    /\ sout.kind = "Ready" =>
         /\ PolledInOrder(sout.tag)
         /\ slog[sout.tag][2] = TRUE
         /\ sout.val = sval[sout.tag]
         /\ sout.tag <= sarity
    /\ sout.kind = "Pending" =>
         PolledInOrder(NumPositions) /\ slog[NumPositions][2] = FALSE
    /\ sout.kind # "unreachable"
    /\ spos > 0 =>
         PolledInOrder(spos - 1) /\ (spos > 1 => slog[spos - 1][2] = FALSE)

\* C24: each poll of a select future polls its inputs in declared order
\* a .. e; it returns Ready tagged with the first position whose poll is
\* ready, carrying that input's value, and polls no later position in that
\* poll; it returns Pending exactly when every input's poll was pending;
\* an input that is ready when it is polled is returned; and the tag is
\* always one of the positions the select_* function was given.
C24_SelectFirstReadyInOrder ==
    [][/\ SelectShape'
       /\ (spos > 0 /\ slog' # slog /\ spos <= sarity /\ sready[spos]) =>
            sout' = [kind |-> "Ready", tag |-> spos, val |-> sval[spos]]
       /\ (spos > 0 /\ slog' # slog /\ ~(spos <= sarity /\ sready[spos])) =>
            sout'.kind # "Ready"]_vars

\* select_ab(ready(x), ready(y)) returned A(x): b was ready too and was not
\* polled.
C24_Witness ==
    /\ sarity = 2
    /\ sready[1] /\ sready[2]
    /\ sval[1] # sval[2]
    /\ sout = [kind |-> "Ready", tag |-> 1, val |-> sval[1]]
    /\ slog = <<<<1, TRUE>>>>

\* select_abc(pending, ready(x), _) returned B(x) on its second poll.
C24_WitnessB ==
    /\ sarity = 3
    /\ ~sready[1]
    /\ sout = [kind |-> "Ready", tag |-> 2, val |-> sval[2]]
    /\ slog = <<<<1, FALSE>>, <<2, TRUE>>>>
    /\ spolls = 2

(***************************************************************************)
(* Claims about block_on, checked under SpecBlock.                         *)
(***************************************************************************)
\* C25: block_on re-polls after a Pending only once the waker made for
\* that poll has been invoked, and each such waker releases one park, so
\* the polls number one more than the Pending results; a wake of the
\* current waker is never lost, whether it came during the poll or after
\* the thread parked; repeated wakes leave at most one message; and
\* block_on returns the value of the first Ready poll and polls no more.
C25_BlockOnWakeNotLost ==
    [][/\ (bpc = "park" /\ bpc' = "poll") =>
            bwoken[biter] >= 1 /\ biter' = biter + 1
       /\ (bpc' \in {"poll", "park"} /\ bwoken'[biter'] >= 1) => bmsg' = 1
       /\ bmsg' <= 1
       /\ \A w \in BlockWakers : w < biter' => bwoken'[w] >= 1
       /\ (bpc = "poll" /\ bpc' = "done") => bout' \in Outputs
       /\ bpc = "done" => bpc' = "done" /\ bout' = bout /\ biter' = biter]_vars

\* The future woke its own waker inside each of two polls that returned
\* Pending, one of them twice, then returned Ready on the third poll and
\* block_on returned its value.
C25_Witness ==
    /\ bpc = "done"
    /\ biter = 3
    /\ bearly = {1, 2}
    /\ \E w \in {1, 2} : bwoken[w] >= 2
    /\ bout \in Outputs

(***************************************************************************)
(* Claims about schedule_blocking, checked under SpecChan: the closure     *)
(* given to the blocking pool owns the OneSender (sender 1) of a oneshot;  *)
(* when func() returns the closure sends the value and the OneSender drops *)
(* at the end of send, when func() panics the unwinding drops the unused   *)
(* OneSender.                                                              *)
(***************************************************************************)
ClosureReturned == oneshot /\ sent[1] = 1
ClosurePanicked == oneshot /\ sent[1] = 0 /\ spc[1] \in {"dropped", "gone"}
ClosureFinished == oneshot /\ spc[1] \in {"dropped", "gone"}

\* C26: the receiver of schedule_blocking gets at most one value, and only
\* the value the closure sent; once the closure has returned the value is
\* waiting for it; its first outcome is Err(RecvError) only when the
\* closure panicked; and when the closure has finished either way a
\* parked receiver has a poll job, so it is never left parked.
C26_BlockingOutcomeOnce ==
    oneshot =>
        /\ Len(received) <= 1
        /\ received # <<>> =>
               ClosureReturned /\ received = << <<1, 1>> >>
        /\ (ClosureReturned /\ received = <<>> /\ ~RxGone) =>
               fifo = << <<1, 1>> >>
        /\ (rpc = "failed" /\ received = <<>>) => ClosurePanicked
        /\ ClosureFinished => ~(rpc = "parked" /\ rJobs = 0)

\* The receiver parked before the closure finished, the closure panicked
\* and the drop of its OneSender woke the receiver.
C26_Witness ==
    /\ ClosurePanicked
    /\ rpc = "parked" /\ rJobs > 0

\* The closure returned and the receiver got its value, once.
C26_WitnessOk ==
    /\ ClosureFinished
    /\ received = << <<1, 1>> >>
    /\ fifo = <<>>

(***************************************************************************)
(* Claims about the counter in the Mutex, checked under SpecCounterFair.   *)
(***************************************************************************)
RECURSIVE TotalAdded(_)
TotalAdded(n) == IF n = 0 THEN 0 ELSE cadded[n] + TotalAdded(n - 1)

AllAdded ==
    /\ \A t \in Lockers : mpc[t] = "done" /\ cadded[t] >= 1
    /\ counter = TotalAdded(NumLockers)

\* C28: once the executor exists, with any number of workers, every task
\* that locks the Mutex, adds 1 and drops the guard completes, and the
\* counter ends at the number of additions made: one per task and round.
C28_AllTasksAddOnce == (cworkers > 0) ~> [] AllAdded

\* No addition is lost on the way: whenever nobody is between the read and
\* the write, the counter is the number of additions made.
C28_CounterExact ==
    (\A t \in Lockers : cread[t] = NoRead) => counter = TotalAdded(NumLockers)

\* On a single worker every task has added 1 and completed.
C28_Witness ==
    /\ cworkers = 1
    /\ AllAdded
    /\ counter = NumLockers

\* A task that parked on the locked Mutex is woken by the drop of the task
\* that made the first addition.
C28_WitnessParked ==
    \E t \in Lockers :
        /\ mpc[t] = "drop" /\ delivered[t] # <<>>
        /\ counter = 1 /\ cadded[t] = 1

(***************************************************************************)
(* Claims about a poll that panics, checked under SpecPanic.               *)
(***************************************************************************)
\* Once a poll of a task has panicked, no later poll job polls its future.
C30_PanickedNeverPolledAgain ==
    [][\A t \in Tasks :
         cell[t] = "poisoned" =>
             cell'[t] = "poisoned" /\ polls'[t] = polls[t]]_vars

\* C30: after a poll of one task has panicked, the polls of the other
\* tasks proceed as without the panic.  Stated on states: there is no
\* state where a task's poll has panicked, the executor is alive, a poll
\* job of another task whose future is not complete waits in the ready
\* queue, every worker thread is dead, and no thread is inside schedule.
C30_OtherTasksProceed ==
    ~ /\ \E t \in Tasks : cell[t] = "poisoned"
      /\ userRef
      /\ \E i \in 1 .. Len(queue) : cell[queue[i]] = "fut"
      /\ \A w \in Workers : tpc[w] = "dead"
      /\ \A th \in Threads : tpc[th] # "wake"

(***************************************************************************)
(* Further claims about the executor, checked under Spec.                  *)
(***************************************************************************)
\* The workers inside a poll of the future of task t (a worker blocked in
\* schedule inside a wake is still inside the poll that invoked the wake).
Polling(t) == {w \in Workers : job[w] = t /\ tpc[w] \in {"poll", "wake"}}

\* C31: the future of a task is never polled by two workers at once; a wake
\* invoked while a worker is polling the task begins no poll, it only
\* enqueues a poll job (or waits in schedule for room); and a poll begins
\* only in a state where no worker is inside a poll of that task.
C31_OnePollAtATime ==
    [][\A t \in Tasks :
         /\ Cardinality(Polling(t)') <= 1
         /\ (wakes'[t] # wakes[t] /\ Polling(t) # {}) =>
                /\ polls' = polls
                /\ \/ queue' = Append(queue, t)
                   \/ queue' = queue
         /\ polls'[t] # polls[t] => Polling(t) = {}]_vars

\* A worker polls task t while another worker, running the poll job of a
\* wake that arrived during the poll, waits for the cell's lock.
C31_Witness ==
    \E t \in Tasks, w, v \in Workers :
        /\ w # v
        /\ job[w] = t /\ tpc[w] = "poll"
        /\ job[v] = t /\ tpc[v] = "lock"
        /\ wakes[t] >= 1

\* A poll job that reaches the test of strong_count() after the executor
\* has been dropped returns without locking the cell or polling.
C32_JobAfterDropSkips ==
    [][\A w \in Workers :
         (tpc[w] = "check" /\ ExecStrong = 0 /\ tpc'[w] # "check") =>
             tpc'[w] = "idle" /\ polls' = polls]_vars

\* C32: no poll of any future begins in a state where the strong reference
\* count of the Executor is zero.
C32_NoPollAfterDrop ==
    [][ExecStrong = 0 => polls' = polls]_vars

(***************************************************************************)
(* Claims about the thread-local executor, checked under SpecTls.          *)
(***************************************************************************)
\* After the outermost execution on the thread has ended the thread-local
\* reference is empty.
C33_EmptyAfterExecution == tstack = <<>> => tls = NoExec

\* C33: while an execution is in progress on the thread, the thread-local
\* reference is the executor that owns the innermost execution in
\* progress, also after an execution nested in it has finished.
C33_ThreadExecutorDuringExecution ==
    tstack # <<>> => tls = tstack[Len(tstack)].exec

(***************************************************************************)
(* Further claims about the timer, checked under SpecTimer.                *)
(***************************************************************************)
\* C34: the timer thread fires in ascending order of instant: an entry
\* leaves the heap only when no entry in the heap has a strictly earlier
\* instant, and an entry that arrives while the thread waits for the
\* earliest one sends the thread back to the top of its loop, where it
\* peeks the heap again.
C34_FiresInDeadlineOrder ==
    [][/\ \A m \in heap :
            m \notin heap' =>
                \A n \in heap : regs[m].instant <= regs[n].instant
       /\ (tmpc = "wait" /\ heap' # heap) => tmpc' = "loop"]_vars

\* Two entries arrived in descending order of instant and have both fired
\* their wakers, the one with the earlier instant first.
C34_Witness ==
    \E a, b \in 1 .. Len(regs) :
        /\ a \notin heap /\ b \notin heap
        /\ invoked[a] = 1 /\ invoked[b] = 1
        /\ regs[b].instant < regs[a].instant
        /\ \E i, j \in 1 .. Len(arrived) :
               i < j /\ arrived[i] = a /\ arrived[j] = b
        /\ lastFired.id = a

(***************************************************************************)
(* Claims about try_schedule when spawning fails, checked under            *)
(* SpecPoolFail.                                                           *)
(***************************************************************************)
\* C35: when try_schedule returns Err(NoThreads) or Err(Respawn) its job
\* has been pushed, the return leaves the queue alone, and no pushed job
\* is ever lost or taken twice: it is in the queue or was dequeued once.
C35_ErrorAfterPush ==
    [][/\ \A c \in Callers :
            (tryRes'[c] \in {"NoThreads", "Respawn"} /\ tryRes'[c] # tryRes[c])
                => /\ Occ(pushed, tryJob[c]) = 1
                   /\ pqueue' = pqueue /\ pushed' = pushed
       /\ \A c \in Callers :
            tryRes'[c] \in {"NoThreads", "Respawn"} =>
                Occ(pqueue', tryJob'[c]) + Occ(dequeued', tryJob'[c]) = 1
       /\ \A j \in 1 .. Len(jkind') :
            Occ(pushed', j) = 1 =>
                Occ(pqueue', j) + Occ(dequeued', j) = 1]_vars

\* try_schedule returned Err(Respawn) and its job has been run by the
\* worker that was live.
C35_Witness ==
    \E c \in Callers :
        /\ tryRes[c] = "Respawn"
        /\ tryJob[c] \in ran

\* try_schedule returned Err(NoThreads) with no worker live and its job is
\* in the queue.
C35_WitnessNoThreads ==
    \E c \in Callers :
        /\ tryRes[c] = "NoThreads" /\ ppc[c] = "idle"
        /\ Occ(pqueue, tryJob[c]) = 1
        /\ LiveWorkers = {}

(***************************************************************************)
(* Claims about AtomicCounter, checked under SpecAc.                       *)
(***************************************************************************)
\* The values handed out so far: returned, or held by a call in progress.
HandedOut ==
    {areturned[i][2] : i \in 1 .. Len(areturned)}
    \cup {agot[t] : t \in {u \in CounterThreads : agot[u] # NoCount}}

\* C36: the values the calls of next have obtained are pairwise distinct
\* and are exactly 0 .. k - 1 after k calls, however the calls of the
\* threads interleave; the values one thread obtains are increasing.
C36_NextValuesDistinct ==
    /\ Cardinality(HandedOut) = CallsBegun
    /\ HandedOut = 0 .. CallsBegun - 1
    /\ \A i, j \in 1 .. Len(areturned) :
          (i < j /\ areturned[i][1] = areturned[j][1]) =>
              areturned[i][2] < areturned[j][2]

\* Calls of three threads have returned, one of them after a call that
\* obtained a larger value, and together they returned 0, 1, 2 and 3.
C36_Witness ==
    /\ Len(areturned) = MaxCalls
    /\ {areturned[i][1] : i \in 1 .. Len(areturned)} = CounterThreads
    /\ \E i \in 1 .. Len(areturned) - 1 :
          areturned[i][2] > areturned[i + 1][2]

(***************************************************************************)
(* Further claims about the Mutex, checked under SpecMutex.                *)
(***************************************************************************)
\* C37: neither assert! of the Mutex fails: a task that has acquired the
\* value lock and enters MutexGuard::new finds locked false, and a guard
\* that is dropped finds locked true.
C37_AssertsNeverFail ==
    /\ ~assertFailed
    /\ \A t \in Lockers : mpc[t] = "new" => ~mLocked
    /\ \A t \in Lockers :
          (mpc[t] = "held" \/ (mpc[t] = "drop" /\ dstep[t] = 1)) => mLocked

\* A task has passed the assert of MutexGuard::new and holds the Mutex
\* while the drop of the previous guard is still waking waiters.
C37_Witness ==
    \E t, u \in Lockers :
        /\ t # u
        /\ mpc[t] = "held"
        /\ mpc[u] = "drop"
        /\ dstep[u] = Len(DropOrder)
        /\ taken[u] # <<>>
        /\ delivered[u] # <<>>

\* A drop has passed its assert while another task, refused by try_lock,
\* is about to read the locked flag.
C37_WitnessDrop ==
    \E t, u \in Lockers :
        /\ mpc[t] = "chk"
        /\ mpc[u] = "drop"
        /\ dstep[u] = 2
        /\ ~mLocked
        /\ holdsValue[u]

\* The wakers of task t that a guard drop will still invoke: those in the
\* waiter FIFO and those a drop in progress has swapped out.
HasQueuedWaker(t) ==
    \E i \in 1 .. Len(mWakers) : mWakers[i].task = t
HasWakerInDrop(t) ==
    \E u \in Lockers : \E i \in 1 .. Len(taken[u]) : taken[u][i].task = t

\* Nobody owns the Mutex and no acquisition or drop is in progress.
MutexFree ==
    /\ ~mLocked
    /\ \A u \in Lockers : ~holdsValue[u] /\ mpc[u] \in {"parked", "done"}

\* C38: no wakeup of a waiter is lost.  A task suspended in lock().await
\* with no poll job pending has a waker in the waiter FIFO or in the list a
\* drop in progress is waking; the FIFO holds wakers only while locked is
\* true; so in no state is the Mutex free with a task pending that has
\* neither a queued waker nor a poll job.
C38_NoLostWakeup ==
    /\ \A t \in Lockers :
          (mpc[t] = "parked" /\ mJobs[t] = 0) =>
              (HasQueuedWaker(t) \/ HasWakerInDrop(t))
    /\ mWakers # <<>> => mLocked
    /\ \A t \in Lockers :
          ~(MutexFree /\ mpc[t] = "parked" /\ mJobs[t] = 0)

\* LockFuture::poll returns Pending only with locked true and its waker
\* appended to the waiter FIFO in the same step.
C38_PendingStoresWaker ==
    [][\A t \in Lockers :
          (mpc[t] = "chk" /\ mpc'[t] = "parked") =>
              /\ mLocked
              /\ Len(mWakers') = Len(mWakers) + 1
              /\ mWakers'[Len(mWakers')].task = t]_vars

\* A poll stored its waker while a guard was being dropped, and that drop
\* has swapped the waker out and is about to invoke it: the task is pending
\* with no poll job, and the Mutex is no longer locked.
C38_Witness ==
    \E t, u \in Lockers :
        /\ t # u
        /\ mpc[t] = "parked"
        /\ mJobs[t] = 0
        /\ rounds[t] = 0
        /\ mpc[u] = "drop"
        /\ ~mLocked
        /\ HasWakerInDrop(t)
        /\ ~HasQueuedWaker(t)

(***************************************************************************)
(* Claims about the number of worker threads, checked under SpecPool.      *)
(***************************************************************************)
\* C39: at all times the number of live worker threads is at most size,
\* also while several threads replenish dead workers and also after the
\* ThreadPool has been dropped.
C39_LiveAtMostSize == Cardinality(LiveWorkers) <= psize

\* While the ThreadPool (or the clone join holds) is alive the number of
\* live worker threads is at most size.
C39_LiveAtMostSizeWhileOwned ==
    pool \in {"ctor", "alive", "joining"} =>
        Cardinality(LiveWorkers) <= psize

\* After a drop the number of live worker threads is at most size + 1.
C39_LiveAtMostSizePlusOne == Cardinality(LiveWorkers) <= psize + 1

(***************************************************************************)
(* Claims about the timer thread and the async workers, under SpecJam.     *)
(***************************************************************************)
\* The timer thread is inside a fired waker's wake with the ready queue
\* full, and every worker of the async pool is inside a poll that is
\* blocked in schedule_wake on the rendezvous channel to the timer thread.
Jammed ==
    /\ tmpc = "wake"
    /\ ReadyLen >= JamCapacity
    /\ Cardinality({z \in Sleepers : zpc[z] = "sending"}) = NumJamWorkers

\* C40: the timer thread and the async workers never deadlock: in no
\* reachable state is the timer thread retrying schedule on a full ready
\* queue while every async worker is blocked in schedule_wake.
C40_NoTimerWorkerDeadlock == ~Jammed

\* Once the timer thread and the workers block each other no step of any
\* thread ends it.
C40_JammedForever == [][Jammed => Jammed']_vars
====
